---- MODULE Spec2Model ----
(***************************************************************************)
(* Liquidity-swap contract (contracts/liquidity-swap/src/lib.rs): the      *)
(* constant-product ledger, its math kernel, the deposit/withdraw escrow   *)
(* handshake and the token contracts it talks to.                          *)
(*                                                                         *)
(* u128 is modelled as an unsigned word of WordBits bits.  Every +, - and  *)
(* * of the source goes through u_add, u_sub, u_mul, which either abort    *)
(* the call (a build with overflow checks) or reduce modulo 2^WordBits (a  *)
(* build without them); the build is fixed per behaviour by                *)
(* overflow_checks.                                                        *)
(*                                                                         *)
(* Spec is the whole protocol from initialize on, with small amounts.      *)
(* SpecPool starts from a ledger funded by confirmed deposits and runs     *)
(* the operations that trade against the pool, with amounts up to the      *)
(* word boundary, for a bounded number of accepted calls.  SpecShares is   *)
(* the same with a second large holder and one more call.  SpecKernel      *)
(* makes one call of initialize or of a function of the math kernel on     *)
(* arguments of its own.                                                   *)
(***************************************************************************)
EXTENDS Integers, Sequences, FiniteSets, Bags, TLC

\* ---------------------------------------------------------------- bounds
WordBits == 20
MaxAmount == 2
WalletA == 2
WalletB == 3
MaxPending == 1
PoolMaxAmount == 2
PoolMaxCalls == 3
ShareMaxCalls == 4
MaxSqrtInput == 40

\* ------------------------------------------------------------- constants
Modulus == 2 ^ WordBits
U128_MAX == Modulus - 1
PerMille == 1000

Users == {"u1", "u2"}
CONTRACT == "pool"
TOKEN_A_ADDRESS == "tokenA"
TOKEN_B_ADDRESS == "tokenB"
OTHER_ADDRESS == "tokenX"
AddressInputs == {TOKEN_A_ADDRESS, TOKEN_B_ADDRESS, OTHER_ADDRESS}
Amounts == 0 .. MaxAmount
Fees == {3}
\* 1000 * BigReserve is a multiple of the modulus
BigReserve == Modulus \div 8
PoolAmounts == (0 .. PoolMaxAmount) \cup {BigReserve}
PoolFees == {0, 3, PerMille}
ShareAmounts == {1, 2, BigReserve}
AnyAmounts == Amounts \cup PoolAmounts

TokenA == "TokenA"
TokenB == "TokenB"
LiquidityToken == "LiquidityToken"

NoPanic == "none"

VARIABLES
    contract,            \* LiquiditySwapContractState.contract
    token_a_address,     \* LiquiditySwapContractState.token_a_address
    token_b_address,     \* LiquiditySwapContractState.token_b_address
    swap_fee_per_mille,  \* LiquiditySwapContractState.swap_fee_per_mille
    token_balances,      \* LiquiditySwapContractState.token_balances
    overflow_checks,     \* the build: TRUE aborts on overflow, FALSE wraps
    wallets,             \* balances kept by the two token contracts
    pending,             \* bag of events in flight
    last,                \* the last call or event that changed anything
    calls,               \* calls accepted so far, counted when the pool is studied alone
    kernel               \* a call of one function of the math kernel, or of initialize, on its own

vars == <<contract, token_a_address, token_b_address, swap_fee_per_mille,
          token_balances, overflow_checks, wallets, pending, last, calls, kernel>>

\* ------------------------------------------------------ u128 arithmetic
Ok(x) == [panic |-> NoPanic, v |-> x]
Err(msg) == [panic |-> msg, v |-> 0]

u_add(x, y) ==
    IF x + y <= U128_MAX THEN Ok(x + y)
    ELSE IF overflow_checks THEN Err("attempt to add with overflow")
    ELSE Ok((x + y) % Modulus)

u_sub(x, y) ==
    IF x >= y THEN Ok(x - y)
    ELSE IF overflow_checks THEN Err("attempt to subtract with overflow")
    ELSE Ok((x - y) + Modulus)

\* The exact product of two words as a double word [hi, lo], built by
\* shifting and adding four bits of y at a time so that no intermediate
\* leaves the double word.
RECURSIVE double_and_add(_, _)
double_and_add(x, y) ==
    IF y = 0 THEN [hi |-> 0, lo |-> 0]
    ELSE LET h == double_and_add(x, y \div 16)
             lo2 == 16 * h.lo + x * (y % 16)
         IN [hi |-> 16 * h.hi + lo2 \div Modulus, lo |-> lo2 % Modulus]

wide_mul(x, y) == IF y <= x THEN double_and_add(x, y) ELSE double_and_add(y, x)

u_mul(x, y) ==
    IF x = 0 \/ y <= U128_MAX \div x THEN Ok(x * y)
    ELSE IF overflow_checks THEN Err("attempt to multiply with overflow")
    ELSE Ok(wide_mul(x, y).lo)

u_div(x, y) ==
    IF y = 0 THEN Err("attempt to divide by zero") ELSE Ok(x \div y)

\* The same operations on operands that may themselves have aborted; the
\* left operand is evaluated first, as in Rust.
Add(rx, ry) ==
    IF rx.panic # NoPanic THEN rx ELSE IF ry.panic # NoPanic THEN ry
    ELSE u_add(rx.v, ry.v)

Sub(rx, ry) ==
    IF rx.panic # NoPanic THEN rx ELSE IF ry.panic # NoPanic THEN ry
    ELSE u_sub(rx.v, ry.v)

Mul(rx, ry) ==
    IF rx.panic # NoPanic THEN rx ELSE IF ry.panic # NoPanic THEN ry
    ELSE u_mul(rx.v, ry.v)

Div(rx, ry) ==
    IF rx.panic # NoPanic THEN rx ELSE IF ry.panic # NoPanic THEN ry
    ELSE u_div(rx.v, ry.v)

\* ----------------------------------------------------------- math kernel
RECURSIVE sqrt_loop(_, _, _, _)
sqrt_loop(l, r, y, fuel) ==
    LET r1 == u_sub(r, 1) IN
    IF r1.panic # NoPanic THEN r1
    ELSE IF l = r1.v THEN Ok(l)
    ELSE IF fuel = 0 THEN Err("does not terminate")
    ELSE LET m == Div(u_add(l, r), Ok(2))
             mm == Mul(m, m)
         IN IF mm.panic # NoPanic THEN mm
            ELSE IF mm.v <= y THEN sqrt_loop(m.v, r, y, fuel - 1)
            ELSE sqrt_loop(l, m.v, y, fuel - 1)

u128_sqrt(y) ==
    LET r == u_add(y, 1) IN
    IF r.panic # NoPanic THEN r ELSE sqrt_loop(0, r.v, y, 2 * WordBits)

initial_liquidity_tokens(token_a_amount, token_b_amount) ==
    LET p == u_mul(token_a_amount, token_b_amount) IN
    IF p.panic # NoPanic THEN p ELSE u128_sqrt(p.v)

\* calculate_swap_to_amount with the opposite pool in the denominator
calculate_swap_to_amount_wrong_pool(from_pool, to_pool, swap_from_amount, fee) ==
    LET remainder_ratio == u_sub(PerMille, fee) IN
    Div(Mul(Mul(remainder_ratio, Ok(swap_from_amount)), Ok(to_pool)),
        Add(u_mul(PerMille, to_pool), Mul(remainder_ratio, Ok(swap_from_amount))))

calculate_swap_to_amount(from_pool, to_pool, swap_from_amount, fee) ==
    LET remainder_ratio == u_sub(PerMille, fee) IN
    Div(Mul(Mul(remainder_ratio, Ok(swap_from_amount)), Ok(to_pool)),
        Add(u_mul(PerMille, from_pool), Mul(remainder_ratio, Ok(swap_from_amount))))

\* calculate_equivalent_and_minted_tokens without its zero case
equivalent_and_minted_no_zero_case(provided_amount, provided_pool, opposite_pool, total_minted_liquidity) ==
    LET opposite_equivalent ==
            Add(Div(u_mul(provided_amount, opposite_pool), Ok(provided_pool)), Ok(1))
        minted_liquidity_tokens ==
            Div(u_mul(provided_amount, total_minted_liquidity), Ok(provided_pool))
    IN  [panic |-> IF opposite_equivalent.panic # NoPanic
                   THEN opposite_equivalent.panic
                   ELSE minted_liquidity_tokens.panic,
         opposite_equivalent |-> opposite_equivalent.v,
         minted_liquidity_tokens |-> minted_liquidity_tokens.v]

calculate_equivalent_and_minted_tokens(provided_amount, provided_pool, opposite_pool, total_minted_liquidity) ==
    LET opposite_equivalent ==
            IF provided_amount > 0
            THEN Add(Div(u_mul(provided_amount, opposite_pool), Ok(provided_pool)), Ok(1))
            ELSE Ok(0)
        minted_liquidity_tokens ==
            Div(u_mul(provided_amount, total_minted_liquidity), Ok(provided_pool))
    IN  [panic |-> IF opposite_equivalent.panic # NoPanic
                   THEN opposite_equivalent.panic
                   ELSE minted_liquidity_tokens.panic,
         opposite_equivalent |-> opposite_equivalent.v,
         minted_liquidity_tokens |-> minted_liquidity_tokens.v]

calculate_reclaim_output(liquidity_token_amount, pool_a, pool_b, minted_liquidity) ==
    LET a_output == Div(u_mul(pool_a, liquidity_token_amount), Ok(minted_liquidity))
        b_output == Div(u_mul(pool_b, liquidity_token_amount), Ok(minted_liquidity))
    IN  [panic |-> IF a_output.panic # NoPanic THEN a_output.panic ELSE b_output.panic,
         a_output |-> a_output.v,
         b_output |-> b_output.v]

\* ---------------------------------------------------------------- ledger
EMPTY_BALANCE == [a_tokens |-> 0, b_tokens |-> 0, liquidity_tokens |-> 0]

get_amount_of(balance, token) ==
    IF token = LiquidityToken THEN balance.liquidity_tokens
    ELSE IF token = TokenA THEN balance.a_tokens
    ELSE balance.b_tokens

\* get_mut_amount_of followed by the assignment through the reference
get_mut_amount_of(balance, token, v) ==
    IF token = LiquidityToken THEN [balance EXCEPT !.liquidity_tokens = v]
    ELSE IF token = TokenA THEN [balance EXCEPT !.a_tokens = v]
    ELSE [balance EXCEPT !.b_tokens = v]

user_has_no_tokens(balance) ==
    balance.a_tokens = 0 /\ balance.b_tokens = 0 /\ balance.liquidity_tokens = 0

get_balance_for(tb, user) ==
    IF user \in DOMAIN tb THEN tb[user] ELSE EMPTY_BALANCE

\* entry(user).or_insert(EMPTY_BALANCE): the map after the lookup
get_mut_balance_for(tb, user) ==
    [u \in (DOMAIN tb) \cup {user} |-> IF u \in DOMAIN tb THEN tb[u] ELSE EMPTY_BALANCE]

\* A call in progress: the working copy of the map and the panic, if any.
Running(tb) == [tb |-> tb, panic |-> NoPanic]

add_to_token_balance(st, user, token, amount) ==
    IF st.panic # NoPanic THEN st
    ELSE LET tb1 == get_mut_balance_for(st.tb, user)
             sum == u_add(get_amount_of(tb1[user], token), amount)
         IN IF sum.panic # NoPanic THEN [tb |-> tb1, panic |-> sum.panic]
            ELSE [tb |-> [tb1 EXCEPT ![user] = get_mut_amount_of(@, token, sum.v)],
                  panic |-> NoPanic]

\* deduct_from_token_balance with wrapping_sub in place of checked_sub
deduct_wrapping(st, user, token, amount) ==
    IF st.panic # NoPanic THEN st
    ELSE LET tb1 == get_mut_balance_for(st.tb, user)
             held == get_amount_of(tb1[user], token)
             tb2 == [tb1 EXCEPT ![user] =
                        get_mut_amount_of(@, token, (held - amount) % Modulus)]
         IN [tb |-> IF user_has_no_tokens(tb2[user])
                    THEN [u \in (DOMAIN tb2) \ {user} |-> tb2[u]]
                    ELSE tb2,
             panic |-> NoPanic]

deduct_from_token_balance(st, user, token, amount) ==
    IF st.panic # NoPanic THEN st
    ELSE LET tb1 == get_mut_balance_for(st.tb, user)
             held == get_amount_of(tb1[user], token)
         IN IF amount > held THEN [tb |-> tb1, panic |-> "Insufficient funds"]
            ELSE LET tb2 == [tb1 EXCEPT ![user] = get_mut_amount_of(@, token, held - amount)]
                 IN [tb |-> IF user_has_no_tokens(tb2[user])
                            THEN [u \in (DOMAIN tb2) \ {user} |-> tb2[u]]
                            ELSE tb2,
                     panic |-> NoPanic]

\* move_tokens that credits the receiver without debiting the payer
move_tokens_credit_only(st, from, to, moved_token, amount) ==
    add_to_token_balance(st, to, moved_token, amount)

move_tokens(st, from, to, moved_token, amount) ==
    add_to_token_balance(deduct_from_token_balance(st, from, moved_token, amount),
                         to, moved_token, amount)

\* deduce_provided_opposite_tokens without its panic: an unknown address
\* falls through to the token B branch
deduce_lenient(provided_token_address) ==
    IF token_a_address = provided_token_address
    THEN [panic |-> NoPanic, provided |-> TokenA, opposite |-> TokenB]
    ELSE [panic |-> NoPanic, provided |-> TokenB, opposite |-> TokenA]

\* [panic, provided, opposite]
deduce_provided_opposite_tokens(provided_token_address) ==
    LET provided_a == token_a_address = provided_token_address
        provided_b == token_b_address = provided_token_address
    IN IF ~provided_a /\ ~provided_b
       THEN [panic |-> "Provided invalid token address", provided |-> TokenA, opposite |-> TokenB]
       ELSE IF provided_a
       THEN [panic |-> NoPanic, provided |-> TokenA, opposite |-> TokenB]
       ELSE [panic |-> NoPanic, provided |-> TokenB, opposite |-> TokenA]

contract_pools_have_liquidity(tb) ==
    LET contract_token_balance == get_balance_for(tb, contract)
    IN contract_token_balance.a_tokens # 0 /\ contract_token_balance.b_tokens # 0

\* ------------------------------------------------------------ operations
\* Every operation returns the working copy of the map, the panic that
\* aborted it (or NoPanic) and the events it emitted.
Outcome(st, events) ==
    [tb |-> st.tb, panic |-> st.panic,
     events |-> IF st.panic = NoPanic THEN events ELSE {}]

Panicked(tb, msg) == [tb |-> tb, panic |-> msg, events |-> {}]

Event(kind, token_address, sender, token, amount, success) ==
    [kind |-> kind, token_address |-> token_address, sender |-> sender,
     token |-> token, amount |-> amount, success |-> success]

\* Address.address_type: the users are plain accounts, every other address is a contract
address_type(address) == IF address \in Users THEN "Account" ELSE "PublicContract"

\* initialize without the bound on the fee
initialize_any_fee(contract_address, a_address, b_address, fee) ==
    IF address_type(a_address) = "Account"
    THEN [panic |-> "Tried to provide an account as token for token A", state |-> <<>>]
    ELSE IF address_type(b_address) = "Account"
    THEN [panic |-> "Tried to provide an account as token for token B", state |-> <<>>]
    ELSE IF a_address = b_address
    THEN [panic |-> "Cannot initialize swap with duplicate tokens", state |-> <<>>]
    ELSE [panic |-> NoPanic,
          state |-> <<[contract |-> contract_address,
                       token_a_address |-> a_address,
                       token_b_address |-> b_address,
                       swap_fee_per_mille |-> fee,
                       token_balances |-> [u \in {} |-> EMPTY_BALANCE]]>>]

\* initialize(context, token_a_address, token_b_address, swap_fee_per_mille):
\* the new state, or the panic that leaves the contract without one
initialize(contract_address, a_address, b_address, fee) ==
    IF address_type(a_address) = "Account"
    THEN [panic |-> "Tried to provide an account as token for token A", state |-> <<>>]
    ELSE IF address_type(b_address) = "Account"
    THEN [panic |-> "Tried to provide an account as token for token B", state |-> <<>>]
    ELSE IF a_address = b_address
    THEN [panic |-> "Cannot initialize swap with duplicate tokens", state |-> <<>>]
    ELSE IF ~(fee <= PerMille)
    THEN [panic |-> "Swap fee should not exceed 1000", state |-> <<>>]
    ELSE [panic |-> NoPanic,
          state |-> <<[contract |-> contract_address,
                       token_a_address |-> a_address,
                       token_b_address |-> b_address,
                       swap_fee_per_mille |-> fee,
                       token_balances |-> [u \in {} |-> EMPTY_BALANCE]]>>]

\* A deposit whose callback carries the tag of the other asset
deposit_opposite_tag(sender, token_address, amount) ==
    LET d == deduce_provided_opposite_tokens(token_address) IN
    IF d.panic # NoPanic THEN Panicked(token_balances, d.panic)
    ELSE Outcome(Running(token_balances),
                 {Event("transfer_from", token_address, sender, d.opposite, amount, FALSE)})

deposit(sender, token_address, amount) ==
    LET d == deduce_provided_opposite_tokens(token_address) IN
    IF d.panic # NoPanic THEN Panicked(token_balances, d.panic)
    ELSE Outcome(Running(token_balances),
                 {Event("transfer_from", token_address, sender, d.provided, amount, FALSE)})

\* deposit_callback without the assert on callback_context.success
deposit_callback_unchecked(sender, success, token, amount) ==
    Outcome(add_to_token_balance(Running(token_balances), sender, token, amount), {})

\* A confirm that, like swap, needs the pools to hold liquidity
deposit_callback_needs_liquidity(sender, success, token, amount) ==
    IF ~success THEN Panicked(token_balances, "Transfer did not succeed")
    ELSE IF ~contract_pools_have_liquidity(token_balances)
    THEN Panicked(token_balances, "Pools must have existing liquidity")
    ELSE Outcome(add_to_token_balance(Running(token_balances), sender, token, amount), {})

\* A confirm that credits the pool's own entry with the deposited amount
deposit_callback_credits_contract(sender, success, token, amount) ==
    IF ~success THEN Panicked(token_balances, "Transfer did not succeed")
    ELSE Outcome(add_to_token_balance(Running(token_balances), contract, token, amount), {})

\* A confirm that credits the deposit only up to the pool's reserve of the token
deposit_callback_capped_by_reserve(sender, success, token, amount) ==
    LET reserve == get_amount_of(get_balance_for(token_balances, contract), token) IN
    IF ~success THEN Panicked(token_balances, "Transfer did not succeed")
    ELSE Outcome(add_to_token_balance(Running(token_balances), sender, token,
                                      IF reserve < amount THEN reserve ELSE amount), {})

\* deposit_callback, run on the ledger tb
deposit_callback_on(tb, sender, success, token, amount) ==
    IF ~success THEN Panicked(tb, "Transfer did not succeed")
    ELSE Outcome(add_to_token_balance(Running(tb), sender, token, amount), {})

deposit_callback(sender, success, token, amount) ==
    deposit_callback_on(token_balances, sender, success, token, amount)

\* swap without the assert on contract_pools_have_liquidity
swap_unguarded(sender, token_address, amount) ==
    LET d == deduce_provided_opposite_tokens(token_address) IN
    IF d.panic # NoPanic THEN Panicked(token_balances, d.panic)
    ELSE
    LET contract_token_balance == get_balance_for(token_balances, contract)
        opposite_token_amount ==
            calculate_swap_to_amount(get_amount_of(contract_token_balance, d.provided),
                                     get_amount_of(contract_token_balance, d.opposite),
                                     amount, swap_fee_per_mille)
    IN IF opposite_token_amount.panic # NoPanic
       THEN Panicked(token_balances, opposite_token_amount.panic)
       ELSE Outcome(move_tokens(move_tokens(Running(token_balances),
                                            sender, contract, d.provided, amount),
                                contract, sender, d.opposite, opposite_token_amount.v),
                    {})

\* swap that moves the provided amount to the pool and pays nothing out
swap_one_leg(sender, token_address, amount) ==
    IF ~contract_pools_have_liquidity(token_balances)
    THEN Panicked(token_balances, "Pools must have existing liquidity to perform a swap")
    ELSE
    LET d == deduce_provided_opposite_tokens(token_address) IN
    IF d.panic # NoPanic THEN Panicked(token_balances, d.panic)
    ELSE Outcome(move_tokens(Running(token_balances), sender, contract, d.provided, amount), {})

\* swap, run on the ledger tb
swap_on(tb, sender, token_address, amount) ==
    IF ~contract_pools_have_liquidity(tb)
    THEN Panicked(tb, "Pools must have existing liquidity to perform a swap")
    ELSE
    LET d == deduce_provided_opposite_tokens(token_address) IN
    IF d.panic # NoPanic THEN Panicked(tb, d.panic)
    ELSE
    LET contract_token_balance == get_balance_for(tb, contract)
        opposite_token_amount ==
            calculate_swap_to_amount(get_amount_of(contract_token_balance, d.provided),
                                     get_amount_of(contract_token_balance, d.opposite),
                                     amount, swap_fee_per_mille)
    IN IF opposite_token_amount.panic # NoPanic
       THEN Panicked(tb, opposite_token_amount.panic)
       ELSE Outcome(move_tokens(move_tokens(Running(tb),
                                            sender, contract, d.provided, amount),
                                contract, sender, d.opposite, opposite_token_amount.v),
                    {})

swap(sender, token_address, amount) ==
    swap_on(token_balances, sender, token_address, amount)

\* A withdraw that, like swap, needs the pools to hold liquidity
withdraw_needs_liquidity(sender, token_address, amount) ==
    LET d == deduce_provided_opposite_tokens(token_address) IN
    IF d.panic # NoPanic THEN Panicked(token_balances, d.panic)
    ELSE IF ~contract_pools_have_liquidity(token_balances)
    THEN Panicked(token_balances, "Pools must have existing liquidity")
    ELSE Outcome(deduct_from_token_balance(Running(token_balances), sender, d.provided, amount),
                 {Event("transfer", token_address, sender, d.provided, amount, FALSE)})

\* A withdraw that emits the transfer and leaves the debit for later
withdraw_debit_deferred(sender, token_address, amount) ==
    LET d == deduce_provided_opposite_tokens(token_address) IN
    IF d.panic # NoPanic THEN Panicked(token_balances, d.panic)
    ELSE IF get_amount_of(get_balance_for(token_balances, sender), d.provided) < amount
    THEN Panicked(token_balances, "Insufficient funds")
    ELSE Outcome(Running(token_balances),
                 {Event("transfer", token_address, sender, d.provided, amount, FALSE)})

\* withdraw, run on the ledger tb
withdraw_on(tb, sender, token_address, amount) ==
    LET d == deduce_provided_opposite_tokens(token_address) IN
    IF d.panic # NoPanic THEN Panicked(tb, d.panic)
    ELSE Outcome(deduct_from_token_balance(Running(tb), sender, d.provided, amount),
                 {Event("transfer", token_address, sender, d.provided, amount, FALSE)})

withdraw(sender, token_address, amount) ==
    withdraw_on(token_balances, sender, token_address, amount)

provide_liquidity_internal(st, user, provided_token_address, provided_amount, opposite_amount, minted_liquidity_tokens) ==
    LET d == deduce_provided_opposite_tokens(provided_token_address) IN
    IF d.panic # NoPanic THEN [tb |-> st.tb, panic |-> d.panic]
    ELSE
    LET s1 == move_tokens(st, user, contract, d.provided, provided_amount)
        s2 == move_tokens(s1, user, contract, d.opposite, opposite_amount)
        s3 == add_to_token_balance(s2, user, LiquidityToken, minted_liquidity_tokens)
    IN add_to_token_balance(s3, contract, LiquidityToken, minted_liquidity_tokens)

\* provide_liquidity without the assert on the minted amount
provide_liquidity_mints_zero(sender, token_address, amount) ==
    LET d == deduce_provided_opposite_tokens(token_address) IN
    IF d.panic # NoPanic THEN Panicked(token_balances, d.panic)
    ELSE
    LET contract_token_balance == get_balance_for(token_balances, contract)
        em == calculate_equivalent_and_minted_tokens(
                  amount,
                  get_amount_of(contract_token_balance, d.provided),
                  get_amount_of(contract_token_balance, d.opposite),
                  contract_token_balance.liquidity_tokens)
    IN IF em.panic # NoPanic THEN Panicked(token_balances, em.panic)
       ELSE Outcome(provide_liquidity_internal(Running(token_balances), sender, token_address,
                                               amount, em.opposite_equivalent,
                                               em.minted_liquidity_tokens),
                    {})

\* provide_liquidity, run on the ledger tb
provide_liquidity_on(tb, sender, token_address, amount) ==
    LET d == deduce_provided_opposite_tokens(token_address) IN
    IF d.panic # NoPanic THEN Panicked(tb, d.panic)
    ELSE
    LET contract_token_balance == get_balance_for(tb, contract)
        em == calculate_equivalent_and_minted_tokens(
                  amount,
                  get_amount_of(contract_token_balance, d.provided),
                  get_amount_of(contract_token_balance, d.opposite),
                  contract_token_balance.liquidity_tokens)
    IN IF em.panic # NoPanic THEN Panicked(tb, em.panic)
       ELSE IF ~(em.minted_liquidity_tokens > 0)
       THEN Panicked(tb, "Provided amount yielded 0 minted liquidity")
       ELSE Outcome(provide_liquidity_internal(Running(tb), sender, token_address,
                                               amount, em.opposite_equivalent,
                                               em.minted_liquidity_tokens),
                    {})

provide_liquidity(sender, token_address, amount) ==
    provide_liquidity_on(token_balances, sender, token_address, amount)

\* A reclaim priced on the share count left after the pool's own debit
reclaim_liquidity_priced_after_burn(sender, liquidity_token_amount) ==
    LET s0 == deduct_from_token_balance(Running(token_balances), sender, LiquidityToken,
                                        liquidity_token_amount)
        s1 == deduct_from_token_balance(s0, contract, LiquidityToken, liquidity_token_amount)
    IN IF s1.panic # NoPanic THEN Outcome(s1, {})
    ELSE
    LET contract_token_balance == get_balance_for(s1.tb, contract)
        out == calculate_reclaim_output(liquidity_token_amount,
                                        contract_token_balance.a_tokens,
                                        contract_token_balance.b_tokens,
                                        contract_token_balance.liquidity_tokens)
    IN IF out.panic # NoPanic THEN Panicked(s1.tb, out.panic)
       ELSE LET s2 == move_tokens(s1, contract, sender, TokenA, out.a_output)
            IN Outcome(move_tokens(s2, contract, sender, TokenB, out.b_output), {})

\* reclaim_liquidity, run on the ledger tb
reclaim_liquidity_on(tb, sender, liquidity_token_amount) ==
    LET s1 == deduct_from_token_balance(Running(tb), sender, LiquidityToken,
                                        liquidity_token_amount)
    IN IF s1.panic # NoPanic THEN Outcome(s1, {})
    ELSE
    LET contract_token_balance == get_balance_for(s1.tb, contract)
        out == calculate_reclaim_output(liquidity_token_amount,
                                        contract_token_balance.a_tokens,
                                        contract_token_balance.b_tokens,
                                        contract_token_balance.liquidity_tokens)
    IN IF out.panic # NoPanic THEN Panicked(s1.tb, out.panic)
       ELSE LET s2 == move_tokens(s1, contract, sender, TokenA, out.a_output)
                s3 == move_tokens(s2, contract, sender, TokenB, out.b_output)
            IN Outcome(deduct_from_token_balance(s3, contract, LiquidityToken,
                                                 liquidity_token_amount),
                       {})

reclaim_liquidity(sender, liquidity_token_amount) ==
    reclaim_liquidity_on(token_balances, sender, liquidity_token_amount)

\* provide_initial_liquidity, run on the ledger tb
provide_initial_liquidity_on(tb, sender, token_a_amount, token_b_amount) ==
    IF contract_pools_have_liquidity(tb)
    THEN Panicked(tb, "Can only initialize when both pools are empty")
    ELSE
    LET minted_liquidity_tokens == initial_liquidity_tokens(token_a_amount, token_b_amount) IN
    IF minted_liquidity_tokens.panic # NoPanic
    THEN Panicked(tb, minted_liquidity_tokens.panic)
    ELSE IF ~(minted_liquidity_tokens.v > 0)
    THEN Panicked(tb, "Provided amount yielded 0 minted liquidity")
    ELSE Outcome(provide_liquidity_internal(Running(tb), sender, token_a_address,
                                            token_a_amount, token_b_amount,
                                            minted_liquidity_tokens.v),
                 {})

provide_initial_liquidity(sender, token_a_amount, token_b_amount) ==
    provide_initial_liquidity_on(token_balances, sender, token_a_amount, token_b_amount)

\* A runtime that persists the working copy of a call that panicked
persist_working_copy(out) == out.tb

\* The runtime persists the state a call returns; a call that panicked
\* returns nothing, and the state stays what it was.
Persist(out) == IF out.panic = NoPanic THEN out.tb ELSE token_balances

Emit(out) == pending (+) SetToBag(out.events)

HasRoom(out) == out.events = {} \/ BagCardinality(pending) < MaxPending

Called(op, panic) == [op |-> op, panic |-> panic]

\* A rejected call leaves no trace: nothing is persisted, nothing is emitted.
Record(out, call) == IF out.panic = NoPanic THEN call ELSE last

\* ------------------------------------------------------- token contracts
\* transfer_from(from, to, amount) and transfer(to, amount) of a token
\* contract: the amount moves if the payer holds it, otherwise the call fails.
token_move(w, token_address, from, to, amount) ==
    [w EXCEPT ![token_address] =
        [h \in DOMAIN w[token_address] |->
            IF h = from /\ h = to THEN w[token_address][h]
            ELSE IF h = from THEN w[token_address][h] - amount
            ELSE IF h = to THEN w[token_address][h] + amount
            ELSE w[token_address][h]]]

token_can_move(w, token_address, from, amount) == w[token_address][from] >= amount

\* ------------------------------------------------------------------ Init
\* No function is being studied on its own
NoKernelCall == [fn |-> "none", args |-> <<>>, done |-> FALSE, result |-> Ok(0)]

Holders == Users \cup {CONTRACT}
TokenAddresses == {TOKEN_A_ADDRESS, TOKEN_B_ADDRESS}

\* initialize: the addresses and the fee as given, an empty map.  Only u1
\* owns tokens outside the contract; u2 calls with empty hands.
Init ==
    /\ contract = CONTRACT
    /\ token_a_address = TOKEN_A_ADDRESS
    /\ token_b_address = TOKEN_B_ADDRESS
    /\ swap_fee_per_mille \in Fees
    /\ token_balances = [u \in {} |-> EMPTY_BALANCE]
    /\ overflow_checks \in BOOLEAN
    /\ wallets = [t \in TokenAddresses |->
                    [h \in Holders |->
                        IF h = "u1" THEN (IF t = TOKEN_A_ADDRESS THEN WalletA ELSE WalletB)
                        ELSE 0]]
    /\ pending = EmptyBag
    /\ last = Called("initialize", NoPanic)
    /\ calls = 0
    /\ kernel = NoKernelCall

Config == <<contract, token_a_address, token_b_address, swap_fee_per_mille, overflow_checks>>

\* --------------------------------------------------------------- actions
DepositStep(sender, token_address, amount) ==
    LET out == deposit(sender, token_address, amount) IN
    /\ HasRoom(out)
    /\ token_balances' = Persist(out)
    /\ pending' = Emit(out)
    /\ last' = Record(out, Called("deposit", NoPanic))
    /\ UNCHANGED <<Config, wallets>>

\* The token contract executes the transfer_from of a deposit and the
\* runtime arms the callback with the result.
TokenTransferFromStep(e, success) ==
    /\ BagIn(e, pending)
    /\ e.kind = "transfer_from"
    /\ success => token_can_move(wallets, e.token_address, e.sender, e.amount)
    /\ wallets' = IF success
                  THEN token_move(wallets, e.token_address, e.sender, contract, e.amount)
                  ELSE wallets
    /\ pending' = (pending (-) SetToBag({e}))
                    (+) SetToBag({[e EXCEPT !.kind = "deposit_callback",
                                            !.success = success]})
    /\ last' = Called("transfer_from", IF success THEN NoPanic ELSE "transfer failed")
    /\ UNCHANGED <<Config, token_balances>>

\* A runtime that keeps the request of a failed confirm for another delivery
DepositCallbackStep_redelivers(e) ==
    /\ BagIn(e, pending)
    /\ e.kind = "deposit_callback"
    /\ LET out == deposit_callback(e.sender, e.success, e.token, e.amount) IN
        /\ token_balances' = Persist(out)
        /\ pending' = IF out.panic = NoPanic THEN pending (-) SetToBag({e}) ELSE pending
        /\ last' = Called("deposit_callback", out.panic)
    /\ UNCHANGED <<Config, wallets>>

DepositCallbackStep(e) ==
    /\ BagIn(e, pending)
    /\ e.kind = "deposit_callback"
    /\ LET out == deposit_callback(e.sender, e.success, e.token, e.amount) IN
        /\ token_balances' = Persist(out)
        /\ pending' = pending (-) SetToBag({e})
        /\ last' = Called("deposit_callback", out.panic)
    /\ UNCHANGED <<Config, wallets>>

SwapStep(sender, token_address, amount) ==
    LET out == swap(sender, token_address, amount) IN
    /\ token_balances' = Persist(out)
    /\ last' = Record(out, Called("swap", NoPanic))
    /\ UNCHANGED <<Config, wallets, pending>>

WithdrawStep(sender, token_address, amount) ==
    LET out == withdraw(sender, token_address, amount) IN
    /\ HasRoom(out)
    /\ token_balances' = Persist(out)
    /\ pending' = Emit(out)
    /\ last' = Record(out, Called("withdraw", NoPanic))
    /\ UNCHANGED <<Config, wallets>>

\* The token contract executes the transfer of a withdraw; nothing reports
\* its result back to the swap contract.
TokenTransferStep(e, success) ==
    /\ BagIn(e, pending)
    /\ e.kind = "transfer"
    /\ success => token_can_move(wallets, e.token_address, contract, e.amount)
    /\ wallets' = IF success
                  THEN token_move(wallets, e.token_address, contract, e.sender, e.amount)
                  ELSE wallets
    /\ pending' = pending (-) SetToBag({e})
    /\ last' = Called("transfer", IF success THEN NoPanic ELSE "transfer failed")
    /\ UNCHANGED <<Config, token_balances>>

ProvideLiquidityStep(sender, token_address, amount) ==
    LET out == provide_liquidity(sender, token_address, amount) IN
    /\ token_balances' = Persist(out)
    /\ last' = Record(out, Called("provide_liquidity", NoPanic))
    /\ UNCHANGED <<Config, wallets, pending>>

ReclaimLiquidityStep(sender, liquidity_token_amount) ==
    LET out == reclaim_liquidity(sender, liquidity_token_amount) IN
    /\ token_balances' = Persist(out)
    /\ last' = Record(out, Called("reclaim_liquidity", NoPanic))
    /\ UNCHANGED <<Config, wallets, pending>>

ProvideInitialLiquidityStep(sender, token_a_amount, token_b_amount) ==
    LET out == provide_initial_liquidity(sender, token_a_amount, token_b_amount) IN
    /\ token_balances' = Persist(out)
    /\ last' = Record(out, Called("provide_initial_liquidity", NoPanic))
    /\ UNCHANGED <<Config, wallets, pending>>

Deposit ==
    \E sender \in Users, token_address \in AddressInputs, amount \in Amounts :
        DepositStep(sender, token_address, amount) /\ UNCHANGED <<calls, kernel>>

TokenTransferFrom ==
    \E e \in BagToSet(pending), success \in BOOLEAN : TokenTransferFromStep(e, success) /\ UNCHANGED <<calls, kernel>>

DepositCallback ==
    \E e \in BagToSet(pending) : DepositCallbackStep(e) /\ UNCHANGED <<calls, kernel>>

Swap ==
    \E sender \in Users, token_address \in AddressInputs, amount \in Amounts :
        SwapStep(sender, token_address, amount) /\ UNCHANGED <<calls, kernel>>

Withdraw ==
    \E sender \in Users, token_address \in AddressInputs, amount \in Amounts :
        WithdrawStep(sender, token_address, amount) /\ UNCHANGED <<calls, kernel>>

TokenTransfer ==
    \E e \in BagToSet(pending), success \in BOOLEAN : TokenTransferStep(e, success) /\ UNCHANGED <<calls, kernel>>

ProvideLiquidity ==
    \E sender \in Users, token_address \in AddressInputs, amount \in Amounts :
        ProvideLiquidityStep(sender, token_address, amount) /\ UNCHANGED <<calls, kernel>>

ReclaimLiquidity ==
    \E sender \in Users, liquidity_token_amount \in Amounts :
        ReclaimLiquidityStep(sender, liquidity_token_amount) /\ UNCHANGED <<calls, kernel>>

ProvideInitialLiquidity ==
    \E sender \in Users, token_a_amount \in Amounts, token_b_amount \in Amounts :
        ProvideInitialLiquidityStep(sender, token_a_amount, token_b_amount) /\ UNCHANGED <<calls, kernel>>

Next ==
    \/ Deposit
    \/ TokenTransferFrom
    \/ DepositCallback
    \/ Swap
    \/ Withdraw
    \/ TokenTransfer
    \/ ProvideLiquidity
    \/ ReclaimLiquidity
    \/ ProvideInitialLiquidity

Spec == Init /\ [][Next]_vars

\* The requests a deposit can have in flight: its transfer_from, and the
\* confirm armed with the result of the transfer
Requests ==
    {Event(kind, token_address, sender, IF token_address = TOKEN_A_ADDRESS THEN TokenA ELSE TokenB, amount, success) :
        kind \in {"transfer_from", "deposit_callback"}, token_address \in TokenAddresses,
        sender \in Users, amount \in Amounts, success \in BOOLEAN}

\* The runtime processes the request
Deliver(e) ==
    /\ \/ \E success \in BOOLEAN : TokenTransferFromStep(e, success)
       \/ DepositCallbackStep(e)
    /\ UNCHANGED <<calls, kernel>>

\* The runtime executes every event a call emitted and delivers every
\* callback it armed: a transfer_from or a confirm that is waiting is
\* eventually processed.
SpecFair == Init /\ [][Next]_vars /\ \A e \in Requests : WF_vars(Deliver(e))

\* ------------------------------------------------------ the pool alone
\* The ledger after confirmed deposits, with nothing in flight: the four
\* operations that trade against the pool, with amounts up to the word boundary.
FundedBalances ==
    [u \in Users |->
        IF u = "u1"
        THEN [a_tokens |-> BigReserve + PoolMaxAmount, b_tokens |-> PoolMaxAmount + 1,
              liquidity_tokens |-> 0]
        ELSE [a_tokens |-> PoolMaxAmount, b_tokens |-> PoolMaxAmount, liquidity_tokens |-> 0]]

PoolInit ==
    /\ contract = CONTRACT
    /\ token_a_address = TOKEN_A_ADDRESS
    /\ token_b_address = TOKEN_B_ADDRESS
    /\ swap_fee_per_mille \in PoolFees
    /\ overflow_checks \in BOOLEAN
    /\ token_balances = FundedBalances
    /\ wallets = [t \in {TOKEN_A_ADDRESS, TOKEN_B_ADDRESS} |->
                    [h \in Users \cup {CONTRACT} |->
                        IF h # CONTRACT THEN 0
                        ELSE IF t = TOKEN_A_ADDRESS
                        THEN FundedBalances["u1"].a_tokens + FundedBalances["u2"].a_tokens
                        ELSE FundedBalances["u1"].b_tokens + FundedBalances["u2"].b_tokens]]
    /\ pending = EmptyBag
    /\ last = Called("deposit_callback", NoPanic)
    /\ calls = 0
    /\ kernel = NoKernelCall

\* A call that changes nothing is not counted.
Counted ==
    /\ calls < PoolMaxCalls
    /\ calls' = IF token_balances' = token_balances /\ last' = last THEN calls ELSE calls + 1
    /\ UNCHANGED kernel

PoolSwap ==
    \E sender \in Users, token_address \in AddressInputs, amount \in PoolAmounts :
        SwapStep(sender, token_address, amount) /\ Counted

PoolProvideLiquidity ==
    \E sender \in Users, token_address \in AddressInputs, amount \in PoolAmounts :
        ProvideLiquidityStep(sender, token_address, amount) /\ Counted

PoolReclaimLiquidity ==
    \E sender \in Users :
        \E amount \in PoolAmounts \cup {get_balance_for(token_balances, sender).liquidity_tokens} :
            ReclaimLiquidityStep(sender, amount) /\ Counted

PoolProvideInitialLiquidity ==
    \E sender \in Users, a \in PoolAmounts, b \in PoolAmounts :
        ProvideInitialLiquidityStep(sender, a, b) /\ Counted

PoolNext ==
    \/ PoolSwap
    \/ PoolProvideLiquidity
    \/ PoolReclaimLiquidity
    \/ PoolProvideInitialLiquidity

SpecPool == PoolInit /\ [][PoolNext]_vars

\* ------------------------------------------- the pool with two large holders
\* The same four operations from a ledger in which the second user holds large
\* amounts of both tokens as well, so that shares can be minted to two holders
\* at the word boundary.
ShareFundedBalances ==
    [u \in Users |->
        IF u = "u1"
        THEN [a_tokens |-> BigReserve + PoolMaxAmount, b_tokens |-> PoolMaxAmount + 1,
              liquidity_tokens |-> 0]
        ELSE [a_tokens |-> 2 * BigReserve + PoolMaxAmount, b_tokens |-> BigReserve,
              liquidity_tokens |-> 0]]

ShareInit ==
    /\ contract = CONTRACT
    /\ token_a_address = TOKEN_A_ADDRESS
    /\ token_b_address = TOKEN_B_ADDRESS
    /\ swap_fee_per_mille \in Fees
    /\ overflow_checks \in BOOLEAN
    /\ token_balances = ShareFundedBalances
    /\ wallets = [t \in {TOKEN_A_ADDRESS, TOKEN_B_ADDRESS} |->
                    [h \in Users \cup {CONTRACT} |->
                        IF h # CONTRACT THEN 0
                        ELSE IF t = TOKEN_A_ADDRESS
                        THEN ShareFundedBalances["u1"].a_tokens + ShareFundedBalances["u2"].a_tokens
                        ELSE ShareFundedBalances["u1"].b_tokens + ShareFundedBalances["u2"].b_tokens]]
    /\ pending = EmptyBag
    /\ last = Called("deposit_callback", NoPanic)
    /\ calls = 0
    /\ kernel = NoKernelCall

CountedShares ==
    /\ calls < ShareMaxCalls
    /\ calls' = IF token_balances' = token_balances /\ last' = last THEN calls ELSE calls + 1
    /\ UNCHANGED kernel

ShareSwap ==
    \E sender \in Users, token_address \in TokenAddresses, amount \in ShareAmounts :
        SwapStep(sender, token_address, amount) /\ CountedShares

ShareProvideLiquidity ==
    \E sender \in Users, token_address \in TokenAddresses, amount \in ShareAmounts :
        ProvideLiquidityStep(sender, token_address, amount) /\ CountedShares

ShareReclaimLiquidity ==
    \E sender \in Users :
        ReclaimLiquidityStep(sender, get_balance_for(token_balances, sender).liquidity_tokens) /\ CountedShares

ShareProvideInitialLiquidity ==
    \E sender \in Users, a \in ShareAmounts, b \in ShareAmounts :
        ProvideInitialLiquidityStep(sender, a, b) /\ CountedShares

ShareNext ==
    \/ ShareSwap
    \/ ShareProvideLiquidity
    \/ ShareReclaimLiquidity
    \/ ShareProvideInitialLiquidity

SpecShares == ShareInit /\ [][ShareNext]_vars

\* --------------------------------------------------- provisions only
\* A ledger in which the second user can follow a first provision at the word
\* boundary with several more, with liquidity provided and never swapped or
\* reclaimed: the sequences of the provision stress test, run through the
\* contract.
ProvisionMaxCalls == 6

ProvisionFundedBalances ==
    [u \in Users |->
        IF u = "u1"
        THEN [a_tokens |-> BigReserve + PoolMaxAmount, b_tokens |-> PoolMaxAmount + 1,
              liquidity_tokens |-> 0]
        ELSE [a_tokens |-> 4 * BigReserve, b_tokens |-> 4 * PoolMaxAmount,
              liquidity_tokens |-> 0]]

ProvisionInit ==
    /\ contract = CONTRACT
    /\ token_a_address = TOKEN_A_ADDRESS
    /\ token_b_address = TOKEN_B_ADDRESS
    /\ swap_fee_per_mille \in Fees
    /\ overflow_checks \in BOOLEAN
    /\ token_balances = ProvisionFundedBalances
    /\ wallets = [t \in TokenAddresses |->
                    [h \in Holders |->
                        IF h # CONTRACT THEN 0
                        ELSE IF t = TOKEN_A_ADDRESS
                        THEN ProvisionFundedBalances["u1"].a_tokens + ProvisionFundedBalances["u2"].a_tokens
                        ELSE ProvisionFundedBalances["u1"].b_tokens + ProvisionFundedBalances["u2"].b_tokens]]
    /\ pending = EmptyBag
    /\ last = Called("deposit_callback", NoPanic)
    /\ calls = 0
    /\ kernel = NoKernelCall

CountedProvisions ==
    /\ calls < ProvisionMaxCalls
    /\ calls' = IF token_balances' = token_balances /\ last' = last THEN calls ELSE calls + 1
    /\ UNCHANGED kernel

FirstProvision ==
    \E sender \in Users, a \in ShareAmounts, b \in ShareAmounts :
        ProvideInitialLiquidityStep(sender, a, b) /\ CountedProvisions

FurtherProvision ==
    \E sender \in Users, token_address \in TokenAddresses, amount \in ShareAmounts :
        ProvideLiquidityStep(sender, token_address, amount) /\ CountedProvisions

ProvisionNext ==
    \/ FirstProvision
    \/ FurtherProvision

SpecProvisions == ProvisionInit /\ [][ProvisionNext]_vars

\* ---------------------------------------------- confirms in flight
\* The funded ledger with two deposits whose transfer_from has been executed
\* and whose confirms are waiting: the runtime delivers them in any order
\* between the calls of the two users.
ConfirmMaxCalls == 2

\* The confirms the runtime can have armed for a deposit of the user
ArmedConfirms(user, tokens) ==
    {Event("deposit_callback", IF token = TokenA THEN TOKEN_A_ADDRESS ELSE TOKEN_B_ADDRESS,
           user, token, amount, success) :
        token \in tokens, amount \in {1, MaxAmount}, success \in BOOLEAN}

\* What the contract holds of the token on the token contract: the funded
\* ledger and every transfer_from that succeeded
HeldInCustody(token, e1, e2) ==
    (IF token = TokenA
     THEN FundedBalances["u1"].a_tokens + FundedBalances["u2"].a_tokens
     ELSE FundedBalances["u1"].b_tokens + FundedBalances["u2"].b_tokens)
    + (IF e1.token = token /\ e1.success THEN e1.amount ELSE 0)
    + (IF e2.token = token /\ e2.success THEN e2.amount ELSE 0)

ConfirmInit ==
    /\ contract = CONTRACT
    /\ token_a_address = TOKEN_A_ADDRESS
    /\ token_b_address = TOKEN_B_ADDRESS
    /\ swap_fee_per_mille \in Fees
    /\ overflow_checks \in BOOLEAN
    /\ token_balances = FundedBalances
    /\ \E e1 \in ArmedConfirms("u1", {TokenA}), e2 \in ArmedConfirms("u2", {TokenA, TokenB}) :
          /\ pending = SetToBag({e1}) (+) SetToBag({e2})
          /\ wallets = [t \in {TOKEN_A_ADDRESS, TOKEN_B_ADDRESS} |->
                          [h \in Users \cup {CONTRACT} |->
                              IF h # CONTRACT THEN 0
                              ELSE HeldInCustody(IF t = TOKEN_A_ADDRESS THEN TokenA ELSE TokenB, e1, e2)]]
    /\ last = Called("transfer_from", NoPanic)
    /\ calls = 0
    /\ kernel = NoKernelCall

ConfirmCounted ==
    /\ calls < ConfirmMaxCalls
    /\ calls' = IF token_balances' = token_balances /\ last' = last THEN calls ELSE calls + 1
    /\ UNCHANGED kernel

ConfirmSwap ==
    \E sender \in Users, token_address \in TokenAddresses, amount \in Amounts :
        SwapStep(sender, token_address, amount) /\ ConfirmCounted

ConfirmProvideLiquidity ==
    \E sender \in Users, token_address \in TokenAddresses, amount \in Amounts :
        ProvideLiquidityStep(sender, token_address, amount) /\ ConfirmCounted

ConfirmReclaimLiquidity ==
    \E sender \in Users, amount \in Amounts :
        ReclaimLiquidityStep(sender, amount) /\ ConfirmCounted

ConfirmProvideInitialLiquidity ==
    \E sender \in Users, a \in Amounts \ {0}, b \in Amounts \ {0} :
        ProvideInitialLiquidityStep(sender, a, b) /\ ConfirmCounted

ConfirmNext ==
    \/ DepositCallback
    \/ ConfirmSwap
    \/ ConfirmProvideLiquidity
    \/ ConfirmReclaimLiquidity
    \/ ConfirmProvideInitialLiquidity

SpecConfirms == ConfirmInit /\ [][ConfirmNext]_vars

\* ------------------------------------------------- one function on its own
\* One call of u128_sqrt, initial_liquidity_tokens, calculate_swap_to_amount,
\* calculate_equivalent_and_minted_tokens, calculate_reclaim_output or
\* initialize, on arguments drawn from small values, the values of the unit
\* tests and values at the word boundary, in either build.
SqrtLimit == 2 * 2 ^ (WordBits \div 2) - 1
SqrtInputs == (0 .. MaxSqrtInput) \cup {SqrtLimit - 1, SqrtLimit, BigReserve, U128_MAX}
InitialInputs == {0, 1, 2, 3, 5, 10, SqrtLimit, BigReserve}
SwapInputs == {0, 1, 10, 100, BigReserve, U128_MAX}
ProvideInputs == {0, 1, 9, 10, 100, BigReserve, U128_MAX}
ReclaimInputs == {0, 10, 25, 30, 100, 150, 200, BigReserve}
InitializeAddresses == {"u1", TOKEN_A_ADDRESS, TOKEN_B_ADDRESS, CONTRACT}
InitializeFees == {0, 3, PerMille, PerMille + 1, U128_MAX}

KernelCall(fn, args) == [fn |-> fn, args |-> args, done |-> FALSE, result |-> Ok(0)]

KernelCalls ==
    {KernelCall("u128_sqrt", <<y>>) : y \in SqrtInputs}
    \cup {KernelCall("initial_liquidity_tokens", <<a, b>>) : a \in InitialInputs, b \in InitialInputs}
    \cup {KernelCall("calculate_swap_to_amount", <<x, y, a, f>>) :
              x \in SwapInputs, y \in SwapInputs, a \in SwapInputs, f \in PoolFees}
    \cup {KernelCall("calculate_equivalent_and_minted_tokens", <<p, x, y, l>>) :
              p \in ProvideInputs, x \in ProvideInputs, y \in ProvideInputs, l \in ProvideInputs}
    \cup {KernelCall("calculate_reclaim_output", <<l, x, y, t>>) :
              l \in ReclaimInputs, x \in ReclaimInputs, y \in ReclaimInputs, t \in ReclaimInputs}
    \cup {KernelCall("initialize", <<a, b, f>>) :
              a \in InitializeAddresses, b \in InitializeAddresses, f \in InitializeFees}

KernelInit ==
    /\ contract = CONTRACT
    /\ token_a_address = TOKEN_A_ADDRESS
    /\ token_b_address = TOKEN_B_ADDRESS
    /\ swap_fee_per_mille \in Fees
    /\ overflow_checks \in BOOLEAN
    /\ token_balances = [u \in {} |-> EMPTY_BALANCE]
    /\ wallets = [t \in TokenAddresses |-> [h \in Holders |-> 0]]
    /\ pending = EmptyBag
    /\ last = Called("initialize", NoPanic)
    /\ calls = 0
    /\ kernel \in KernelCalls

Apply(fn, result) ==
    /\ kernel.fn = fn
    /\ ~kernel.done
    /\ kernel' = [kernel EXCEPT !.done = TRUE, !.result = result]
    /\ UNCHANGED <<Config, token_balances, wallets, pending, last, calls>>

ApplySqrt ==
    /\ kernel.fn = "u128_sqrt"
    /\ Apply("u128_sqrt", u128_sqrt(kernel.args[1]))

ApplyInitialLiquidityTokens ==
    /\ kernel.fn = "initial_liquidity_tokens"
    /\ Apply("initial_liquidity_tokens", initial_liquidity_tokens(kernel.args[1], kernel.args[2]))

ApplySwapToAmount ==
    /\ kernel.fn = "calculate_swap_to_amount"
    /\ Apply("calculate_swap_to_amount",
             calculate_swap_to_amount(kernel.args[1], kernel.args[2], kernel.args[3], kernel.args[4]))

ApplyEquivalentAndMinted ==
    /\ kernel.fn = "calculate_equivalent_and_minted_tokens"
    /\ Apply("calculate_equivalent_and_minted_tokens",
             calculate_equivalent_and_minted_tokens(kernel.args[1], kernel.args[2], kernel.args[3], kernel.args[4]))

ApplyReclaimOutput ==
    /\ kernel.fn = "calculate_reclaim_output"
    /\ Apply("calculate_reclaim_output",
             calculate_reclaim_output(kernel.args[1], kernel.args[2], kernel.args[3], kernel.args[4]))

ApplyInitialize ==
    /\ kernel.fn = "initialize"
    /\ Apply("initialize", initialize(contract, kernel.args[1], kernel.args[2], kernel.args[3]))

KernelNext ==
    \/ ApplySqrt
    \/ ApplyInitialLiquidityTokens
    \/ ApplySwapToAmount
    \/ ApplyEquivalentAndMinted
    \/ ApplyReclaimOutput
    \/ ApplyInitialize

SpecKernel == KernelInit /\ [][KernelNext]_vars

\* The call of fn has been made
Applied(fn) == kernel.fn = fn /\ kernel.done

\* ------------------------------------------- the round trip of the unit test
\* test_calculate_swap_to_amount swaps input_a there and back against pools
\* of 123456789.  On u128 no product of these values comes near 2^128, so no
\* operation wraps or panics; the products exceed the integers of the model
\* checker, so they are held as sequences of digits, lowest first.
Base == 10000

RECURSIVE ToDigits(_)
ToDigits(n) == IF n = 0 THEN <<>> ELSE <<n % Base>> \o ToDigits(n \div Base)

RECURSIVE MulDigit(_, _, _)
MulDigit(a, m, carry) ==
    IF a = <<>> THEN ToDigits(carry)
    ELSE LET v == Head(a) * m + carry
         IN <<v % Base>> \o MulDigit(Tail(a), m, v \div Base)

RECURSIVE AddDigits(_, _, _)
AddDigits(a, b, carry) ==
    IF a = <<>> /\ b = <<>> THEN ToDigits(carry)
    ELSE LET x == IF a = <<>> THEN 0 ELSE Head(a)
             y == IF b = <<>> THEN 0 ELSE Head(b)
             v == x + y + carry
         IN <<v % Base>> \o AddDigits(IF a = <<>> THEN a ELSE Tail(a),
                                      IF b = <<>> THEN b ELSE Tail(b), v \div Base)

RECURSIVE MulDigits(_, _)
MulDigits(a, b) ==
    IF b = <<>> THEN <<>>
    ELSE AddDigits(MulDigit(a, Head(b), 0), <<0>> \o MulDigits(a, Tail(b)), 0)

\* -1, 0 or 1 as a is below, equal to or above b
RECURSIVE CompareDigits(_, _)
CompareDigits(a, b) ==
    IF a = <<>> /\ b = <<>> THEN 0
    ELSE LET x == IF a = <<>> THEN 0 ELSE Head(a)
             y == IF b = <<>> THEN 0 ELSE Head(b)
             higher == CompareDigits(IF a = <<>> THEN a ELSE Tail(a),
                                     IF b = <<>> THEN b ELSE Tail(b))
         IN IF higher # 0 THEN higher ELSE IF x < y THEN -1 ELSE IF x > y THEN 1 ELSE 0

\* 36 decimal digits are below 2^128
FitsU128(a) == CompareDigits(a, <<0, 0, 0, 0, 0, 0, 0, 0, 0, 1>>) < 0

\* The largest q in lo .. hi with q * d <= n, given lo * d <= n
RECURSIVE Bisect(_, _, _, _)
Bisect(n, d, lo, hi) ==
    IF lo = hi THEN lo
    ELSE LET mid == (lo + hi + 1) \div 2
         IN IF CompareDigits(MulDigit(d, mid, 0), n) <= 0
            THEN Bisect(n, d, mid, hi)
            ELSE Bisect(n, d, lo, mid - 1)

\* n / d on u128, for a quotient below Base
DivDigits(n, d) ==
    IF CompareDigits(d, <<>>) = 0 THEN Err("attempt to divide by zero")
    ELSE IF CompareDigits(MulDigit(d, Base - 1, 0), n) <= 0 THEN Err("quotient beyond the digits kept")
    ELSE Ok(Bisect(n, d, 0, Base - 1))

\* calculate_swap_to_amount with twice the fee taken from the input
calculate_swap_to_amount_u128_fee_twice(from_pool, to_pool, swap_from_amount, fee) ==
    LET remainder_ratio == ToDigits(PerMille - 2 * fee)
        numerator == MulDigits(MulDigits(remainder_ratio, ToDigits(swap_from_amount)), ToDigits(to_pool))
        denominator == AddDigits(MulDigits(ToDigits(PerMille), ToDigits(from_pool)),
                                 MulDigits(remainder_ratio, ToDigits(swap_from_amount)), 0)
    IN DivDigits(numerator, denominator)

\* calculate_swap_to_amount on 128-bit words
calculate_swap_to_amount_u128(from_pool, to_pool, swap_from_amount, fee) ==
    IF fee > PerMille THEN Err("attempt to subtract with overflow")
    ELSE
    LET remainder_ratio == ToDigits(PerMille - fee)
        numerator == MulDigits(MulDigits(remainder_ratio, ToDigits(swap_from_amount)), ToDigits(to_pool))
        denominator == AddDigits(MulDigits(ToDigits(PerMille), ToDigits(from_pool)),
                                 MulDigits(remainder_ratio, ToDigits(swap_from_amount)), 0)
    IN IF ~FitsU128(numerator) \/ ~FitsU128(denominator) THEN Err("beyond 36 digits")
       ELSE DivDigits(numerator, denominator)

\* The values of test_calculate_swap_to_amount
EndInputRange == 1000
TestPool == 123456789
TestFee == 3

RoundTripInit ==
    /\ contract = CONTRACT
    /\ token_a_address = TOKEN_A_ADDRESS
    /\ token_b_address = TOKEN_B_ADDRESS
    /\ swap_fee_per_mille = TestFee
    /\ overflow_checks \in BOOLEAN
    /\ token_balances = [u \in {} |-> EMPTY_BALANCE]
    /\ wallets = [t \in TokenAddresses |-> [h \in Holders |-> 0]]
    /\ pending = EmptyBag
    /\ last = Called("initialize", NoPanic)
    /\ calls = 0
    /\ kernel \in {KernelCall("test_calculate_swap_to_amount", <<input_a>>) : input_a \in 1 .. EndInputRange}

\* let output_b = calculate_swap_to_amount(a_pool, b_pool, input_a, 3)
SwapThere ==
    /\ kernel.fn = "test_calculate_swap_to_amount"
    /\ Len(kernel.args) = 1
    /\ LET output_b == calculate_swap_to_amount_u128(TestPool, TestPool, kernel.args[1], TestFee)
       IN kernel' = IF output_b.panic = NoPanic
                    THEN [kernel EXCEPT !.args = Append(@, output_b.v)]
                    ELSE [kernel EXCEPT !.done = TRUE, !.result = output_b]
    /\ UNCHANGED <<Config, token_balances, wallets, pending, last, calls>>

\* let output_a = calculate_swap_to_amount(b_pool - output_b, a_pool + input_a, output_b, 3)
SwapBack ==
    /\ kernel.fn = "test_calculate_swap_to_amount"
    /\ Len(kernel.args) = 2
    /\ ~kernel.done
    /\ LET input_a == kernel.args[1]
           output_b == kernel.args[2]
       IN kernel' = [kernel EXCEPT
                        !.done = TRUE,
                        !.result = IF output_b > TestPool THEN Err("attempt to subtract with overflow")
                                   ELSE calculate_swap_to_amount_u128(TestPool - output_b, TestPool + input_a, output_b, TestFee)]
    /\ UNCHANGED <<Config, token_balances, wallets, pending, last, calls>>

RoundTripNext ==
    \/ SwapThere
    \/ SwapBack

SpecRoundTrip == RoundTripInit /\ [][RoundTripNext]_vars

\* ------------------------------------------------------------ quantities
RECURSIVE SumOver(_, _, _)
SumOver(tb, accounts, token) ==
    IF accounts = {} THEN 0
    ELSE LET u == CHOOSE x \in accounts : TRUE
         IN get_amount_of(tb[u], token) + SumOver(tb, accounts \ {u}, token)

\* Sum of the entitlements to a token over every entry of the map, the pool's included
Entitlements(tb, token) == SumOver(tb, DOMAIN tb, token)

AddressOf(token) == IF token = TokenA THEN token_a_address ELSE token_b_address

Custody(token) == wallets[AddressOf(token)][contract]

Pool == get_balance_for(token_balances, contract)

PoolInitialized == Pool.a_tokens # 0 /\ Pool.b_tokens # 0

Rejected(out) == out.panic # NoPanic /\ Persist(out) = token_balances /\ out.events = {}

\* ------------------------------------------------------------ properties

\* C1: the sum of all entitlements to asset A, and the sum for asset B, changes
\* by exactly +amount on a successfully confirmed deposit of that asset, by
\* exactly -amount on a withdraw of that asset, and by nothing on any other step.
C1_ConservationStep ==
    \A token \in {TokenA, TokenB} :
        LET before == Entitlements(token_balances, token)
            after == Entitlements(token_balances', token)
        IN /\ last'.op = "deposit_callback" =>
                \A e \in BagToSet(pending) :
                    DepositCallbackStep(e) =>
                        after = before + (IF e.success /\ e.token = token THEN e.amount ELSE 0)
           /\ last'.op = "withdraw" =>
                \A sender \in Users, token_address \in TokenAddresses, amount \in Amounts :
                    WithdrawStep(sender, token_address, amount) =>
                        after = before - (IF AddressOf(token) = token_address THEN amount ELSE 0)
           /\ last'.op \notin {"deposit_callback", "withdraw"} => after = before

C1_Conservation == [][C1_ConservationStep]_vars

\* C1 witness: a withdraw of a positive amount has been debited while the pool trades
C1_Witness ==
    /\ last.op = "withdraw"
    /\ PoolInitialized
    /\ \E e \in BagToSet(pending) : e.kind = "transfer" /\ e.amount > 0

\* C2: a successful swap never lowers the product of the two reserves.
WideLeq(p, q) == p.hi < q.hi \/ (p.hi = q.hi /\ p.lo <= q.lo)

C2_MonotonicProductStep ==
    \A sender \in Users, token_address \in TokenAddresses, amount \in PoolAmounts :
        (SwapStep(sender, token_address, amount)
            /\ swap(sender, token_address, amount).panic = NoPanic)
        => WideLeq(wide_mul(Pool.a_tokens, Pool.b_tokens),
                   wide_mul(Pool'.a_tokens, Pool'.b_tokens))

C2_MonotonicProduct == [][C2_MonotonicProductStep]_vars

\* C3: every balance field is a value of the unsigned word, and a debit of more
\* than the account holds fails with 'Insufficient funds'; the withdraw, swap
\* and reclaim that ask for it are rejected.
C3_NonNegativity ==
    /\ \A u \in DOMAIN token_balances :
          \A token \in {TokenA, TokenB, LiquidityToken} :
              get_amount_of(token_balances[u], token) \in 0 .. U128_MAX
    /\ \A u \in Holders, token \in {TokenA, TokenB, LiquidityToken}, amount \in AnyAmounts :
          amount > get_amount_of(get_balance_for(token_balances, u), token) =>
              deduct_from_token_balance(Running(token_balances), u, token, amount).panic
                  = "Insufficient funds"
    /\ \A sender \in Users, token \in {TokenA, TokenB}, amount \in AnyAmounts :
          amount > get_amount_of(get_balance_for(token_balances, sender), token) =>
              /\ Rejected(withdraw(sender, AddressOf(token), amount))
              /\ withdraw(sender, AddressOf(token), amount).panic = "Insufficient funds"
              /\ Rejected(swap(sender, AddressOf(token), amount))
    /\ \A sender \in Users, amount \in AnyAmounts :
          amount > get_balance_for(token_balances, sender).liquidity_tokens =>
              /\ Rejected(reclaim_liquidity(sender, amount))
              /\ reclaim_liquidity(sender, amount).panic = "Insufficient funds"

\* C3 witness: an account holds one unit of asset A and asks to withdraw two
C3_Witness ==
    \E sender \in Users :
        /\ get_balance_for(token_balances, sender).a_tokens = 1
        /\ withdraw(sender, token_a_address, 2).panic = "Insufficient funds"

C6_NoEmptyEntry ==
    \A u \in DOMAIN token_balances : ~user_has_no_tokens(token_balances[u])

\* C7: once both reserves are non-zero they stay non-zero in every later state.
C7_StaysInitialized == [][PoolInitialized => PoolInitialized']_vars

\* C8: with a non-zero reserve, provide_initial_liquidity is rejected.
C8_InitialOnlyWhenEmpty ==
    (Pool.a_tokens # 0 \/ Pool.b_tokens # 0) =>
        \A sender \in Users, a \in AnyAmounts, b \in AnyAmounts :
            /\ Rejected(provide_initial_liquidity(sender, a, b))
            /\ provide_initial_liquidity(sender, a, b).panic
                  = "Can only initialize when both pools are empty"

\* C9: with a zero reserve a swap is rejected, and on an uninitialized pool
\* (both reserves zero) provide_liquidity is rejected; neither changes the map.
C9_OnlyWhenInitialized ==
    /\ (Pool.a_tokens = 0 \/ Pool.b_tokens = 0) =>
          \A sender \in Users, token_address \in AddressInputs, amount \in AnyAmounts :
              /\ Rejected(swap(sender, token_address, amount))
              /\ swap(sender, token_address, amount).panic
                    = "Pools must have existing liquidity to perform a swap"
    /\ (Pool.a_tokens = 0 /\ Pool.b_tokens = 0) =>
          \A sender \in Users, token_address \in AddressInputs, amount \in AnyAmounts :
              Rejected(provide_liquidity(sender, token_address, amount))

\* C9 witness: the pool is empty and a caller holds what a swap would take
C9_Witness ==
    /\ ~PoolInitialized
    /\ \E sender \in Users :
          /\ get_balance_for(token_balances, sender).a_tokens >= 1
          /\ get_balance_for(token_balances, sender).b_tokens >= 2
          /\ swap(sender, token_a_address, 1).panic # NoPanic
          /\ provide_liquidity(sender, token_a_address, 1).panic # NoPanic

\* C10: a token address that is neither token A nor token B is rejected by
\* deposit, swap, withdraw and provide_liquidity; token A resolves to (A, B)
\* and token B to (B, A).
C10_InvalidAddress ==
    /\ \A sender \in Users, amount \in AnyAmounts :
          /\ Rejected(deposit(sender, OTHER_ADDRESS, amount))
          /\ Rejected(swap(sender, OTHER_ADDRESS, amount))
          /\ Rejected(withdraw(sender, OTHER_ADDRESS, amount))
          /\ Rejected(provide_liquidity(sender, OTHER_ADDRESS, amount))
    /\ deduce_provided_opposite_tokens(token_a_address)
          = [panic |-> NoPanic, provided |-> TokenA, opposite |-> TokenB]
    /\ deduce_provided_opposite_tokens(token_b_address)
          = [panic |-> NoPanic, provided |-> TokenB, opposite |-> TokenA]

\* C10 witness: the pool trades, the caller holds asset B, and names a wrong address
C10_Witness ==
    /\ PoolInitialized
    /\ \E sender \in Users :
          /\ get_balance_for(token_balances, sender).b_tokens >= 1
          /\ swap(sender, OTHER_ADDRESS, 1).panic = "Provided invalid token address"
          /\ withdraw(sender, OTHER_ADDRESS, 1).panic = "Provided invalid token address"

\* C11: the pool entry's liquidity_tokens equals the sum of the liquidity_tokens
\* of all other entries; only provide_initial_liquidity and provide_liquidity
\* raise any liquidity_tokens field, only reclaim_liquidity lowers one.
UserShares(tb) == SumOver(tb, (DOMAIN tb) \ {contract}, LiquidityToken)

SupplyConsistent(tb) == get_balance_for(tb, contract).liquidity_tokens = UserShares(tb)

C11_SupplyStep ==
    /\ SupplyConsistent(token_balances)
    /\ SupplyConsistent(token_balances')
    /\ \A u \in Holders :
          LET before == get_balance_for(token_balances, u).liquidity_tokens
              after == get_balance_for(token_balances', u).liquidity_tokens
          IN /\ after > before => last'.op \in {"provide_initial_liquidity", "provide_liquidity"}
             /\ after < before => last'.op = "reclaim_liquidity"

C11_SupplyConsistency == [][C11_SupplyStep]_vars

\* C12: a successful swap applies both legs in one step: the caller's asset_in
\* falls and the pool's rises by amount_in, the pool's asset_out falls and the
\* caller's rises by amount_out, amount_out being calculate_swap_to_amount on
\* the reserves before the swap; liquidity fields and other accounts are unchanged.
Opposite(token) == IF token = TokenA THEN TokenB ELSE TokenA

SwapLegs(sender, token_in, amount_in, amount_out) ==
    \A h \in Holders :
        LET before == get_balance_for(token_balances, h)
            after == get_balance_for(token_balances', h)
            token_out == Opposite(token_in)
        IN /\ after.liquidity_tokens = before.liquidity_tokens
           /\ get_amount_of(after, token_in) =
                 IF h = sender THEN get_amount_of(before, token_in) - amount_in
                 ELSE IF h = contract THEN get_amount_of(before, token_in) + amount_in
                 ELSE get_amount_of(before, token_in)
           /\ get_amount_of(after, token_out) =
                 IF h = sender THEN get_amount_of(before, token_out) + amount_out
                 ELSE IF h = contract THEN get_amount_of(before, token_out) - amount_out
                 ELSE get_amount_of(before, token_out)

C12_SwapStep ==
    (last'.op = "swap" /\ token_balances' # token_balances) =>
        \E sender \in Users, token_in \in {TokenA, TokenB}, amount_in \in AnyAmounts :
            LET amount_out == calculate_swap_to_amount(get_amount_of(Pool, token_in),
                                                       get_amount_of(Pool, Opposite(token_in)),
                                                       amount_in, swap_fee_per_mille)
            IN /\ amount_out.panic = NoPanic
               /\ SwapLegs(sender, token_in, amount_in, amount_out.v)

C12_SwapBothLegs == [][C12_SwapStep]_vars

\* C12 witness: a swap of 1 A against reserves (1, 3) has paid out 1 B
C12_Witness ==
    /\ last.op = "swap"
    /\ Pool = [a_tokens |-> 2, b_tokens |-> 2, liquidity_tokens |-> 1]

\* C13: for reserve_in > 0 and fee in 0 .. 1000, when no intermediate value
\* leaves the word, calculate_swap_to_amount returns
\* floor(((1000 - fee) * amount_in * reserve_out) / (1000 * reserve_in + (1000 - fee) * amount_in));
\* with fee 3 that is the floor of reserve_out * (amount_in * 0.997) / (reserve_in + amount_in * 0.997).
Fits(x) == 0 <= x /\ x <= U128_MAX

ProductFits(x, y) == x = 0 \/ y <= U128_MAX \div x

SwapFits(reserve_in, reserve_out, amount_in, fee) ==
    /\ ProductFits(PerMille - fee, amount_in)
    /\ ProductFits((PerMille - fee) * amount_in, reserve_out)
    /\ ProductFits(PerMille, reserve_in)
    /\ Fits(PerMille * reserve_in + (PerMille - fee) * amount_in)

C13_SwapFormula ==
    Applied("calculate_swap_to_amount") =>
        LET reserve_in == kernel.args[1]
            reserve_out == kernel.args[2]
            amount_in == kernel.args[3]
            fee == kernel.args[4]
            out == kernel.result
        IN (reserve_in > 0 /\ fee \in 0 .. PerMille /\ SwapFits(reserve_in, reserve_out, amount_in, fee)) =>
              /\ out.panic = NoPanic
              /\ out.v = ((PerMille - fee) * amount_in * reserve_out)
                            \div (PerMille * reserve_in + (PerMille - fee) * amount_in)
              /\ fee = 3 =>
                    /\ out.v * (1000 * reserve_in + 997 * amount_in) <= reserve_out * amount_in * 997
                    /\ reserve_out * amount_in * 997 < (out.v + 1) * (1000 * reserve_in + 997 * amount_in)

\* C13 witness: 10 swapped into reserves (100, 100) at fee 3 returns 9, in either build
C13_Witness ==
    /\ Applied("calculate_swap_to_amount")
    /\ kernel.args = <<100, 100, 10, 3>>
    /\ SwapFits(100, 100, 10, 3)
    /\ kernel.result = Ok(9)

\* C14: for provided_amount > 0 and provided_reserve > 0, and any opposite_reserve
\* and total_shares, calculate_equivalent_and_minted_tokens returns
\* opposite_amount = floor(provided_amount * opposite_reserve / provided_reserve) + 1
\* and minted = floor(provided_amount * total_shares / provided_reserve), so that
\* opposite_amount * provided_reserve > provided_amount * opposite_reserve and
\* minted * provided_reserve <= provided_amount * total_shares.
WideLt(p, q) == ~WideLeq(q, p)

\* q = floor(x * y / d), on exact products
IsFloorOfRatio(q, x, y, d) ==
    /\ WideLeq(wide_mul(q, d), wide_mul(x, y))
    /\ WideLt(wide_mul(x, y), wide_mul(q + 1, d))

C14_EquivalentAndMinted ==
    Applied("calculate_equivalent_and_minted_tokens") =>
        LET provided_amount == kernel.args[1]
            provided_reserve == kernel.args[2]
            opposite_reserve == kernel.args[3]
            total_shares == kernel.args[4]
            out == kernel.result
        IN (provided_amount > 0 /\ provided_reserve > 0) =>
              /\ out.panic = NoPanic
              /\ out.opposite_equivalent >= 1
              /\ IsFloorOfRatio(out.opposite_equivalent - 1, provided_amount, opposite_reserve, provided_reserve)
              /\ IsFloorOfRatio(out.minted_liquidity_tokens, provided_amount, total_shares, provided_reserve)
              /\ WideLt(wide_mul(provided_amount, opposite_reserve),
                        wide_mul(out.opposite_equivalent, provided_reserve))
              /\ WideLeq(wide_mul(out.minted_liquidity_tokens, provided_reserve),
                         wide_mul(provided_amount, total_shares))

\* C15: for total_shares > 0 and any liquidity_amount, reserve_a, reserve_b,
\* calculate_reclaim_output returns a_output = floor(reserve_a * liquidity_amount / total_shares)
\* and b_output = floor(reserve_b * liquidity_amount / total_shares), so that
\* a_output * total_shares <= reserve_a * liquidity_amount, and likewise for B.
C15_ReclaimOutput ==
    Applied("calculate_reclaim_output") =>
        LET liquidity_amount == kernel.args[1]
            reserve_a == kernel.args[2]
            reserve_b == kernel.args[3]
            total_shares == kernel.args[4]
            out == kernel.result
        IN total_shares > 0 =>
              /\ out.panic = NoPanic
              /\ IsFloorOfRatio(out.a_output, reserve_a, liquidity_amount, total_shares)
              /\ IsFloorOfRatio(out.b_output, reserve_b, liquidity_amount, total_shares)
              /\ WideLeq(wide_mul(out.a_output, total_shares), wide_mul(reserve_a, liquidity_amount))
              /\ WideLeq(wide_mul(out.b_output, total_shares), wide_mul(reserve_b, liquidity_amount))

\* C16: for every y of the word, u128_sqrt returns the largest x with
\* x * x <= y, that is x * x <= y < (x + 1) * (x + 1).
C16_IntegerSqrt ==
    Applied("u128_sqrt") =>
        LET y == kernel.args[1]
            x == kernel.result
            exact_y == [hi |-> 0, lo |-> y]
        IN /\ x.panic = NoPanic
           /\ WideLeq(wide_mul(x.v, x.v), exact_y)
           /\ WideLt(exact_y, wide_mul(x.v + 1, x.v + 1))

\* C17: for x > 0, y > 0, l > 0 and any fee in 0 .. 1000, a zero amount gives
\* zero: calculate_swap_to_amount(x, y, 0, fee) = 0,
\* calculate_equivalent_and_minted_tokens(0, x, y, l) = (0, 0) and
\* calculate_reclaim_output(0, x, y, l) = (0, 0).
C17_ZeroCases ==
    /\ (Applied("calculate_swap_to_amount") /\ kernel.args[1] > 0 /\ kernel.args[2] > 0
            /\ kernel.args[3] = 0 /\ kernel.args[4] \in 0 .. PerMille)
          => kernel.result = Ok(0)
    /\ (Applied("calculate_equivalent_and_minted_tokens") /\ kernel.args[1] = 0
            /\ kernel.args[2] > 0 /\ kernel.args[3] > 0 /\ kernel.args[4] > 0)
          => /\ kernel.result.panic = NoPanic
             /\ kernel.result.opposite_equivalent = 0
             /\ kernel.result.minted_liquidity_tokens = 0
    /\ (Applied("calculate_reclaim_output") /\ kernel.args[1] = 0
            /\ kernel.args[2] > 0 /\ kernel.args[3] > 0 /\ kernel.args[4] > 0)
          => /\ kernel.result.panic = NoPanic
             /\ kernel.result.a_output = 0
             /\ kernel.result.b_output = 0

\* C17 as the code has it: the zero cases of calculate_equivalent_and_minted_tokens
\* and calculate_reclaim_output hold as stated; calculate_swap_to_amount(x, y, 0, fee)
\* never returns anything but 0, and returns 0 whenever 1000 * x fits the word
\* (beyond that the call may abort).
C17_ZeroCasesAmended ==
    /\ (Applied("calculate_swap_to_amount") /\ kernel.args[1] > 0 /\ kernel.args[2] > 0
            /\ kernel.args[3] = 0 /\ kernel.args[4] \in 0 .. PerMille)
          => /\ kernel.result.panic # NoPanic \/ kernel.result = Ok(0)
             /\ ProductFits(PerMille, kernel.args[1]) => kernel.result = Ok(0)
    /\ (Applied("calculate_equivalent_and_minted_tokens") /\ kernel.args[1] = 0
            /\ kernel.args[2] > 0 /\ kernel.args[3] > 0 /\ kernel.args[4] > 0)
          => /\ kernel.result.panic = NoPanic
             /\ kernel.result.opposite_equivalent = 0
             /\ kernel.result.minted_liquidity_tokens = 0
    /\ (Applied("calculate_reclaim_output") /\ kernel.args[1] = 0
            /\ kernel.args[2] > 0 /\ kernel.args[3] > 0 /\ kernel.args[4] > 0)
          => /\ kernel.result.panic = NoPanic
             /\ kernel.result.a_output = 0
             /\ kernel.result.b_output = 0

\* C17 witness: providing 0 against reserves (100, 100) and 100 shares returns (0, 0)
C17_Witness ==
    /\ Applied("calculate_equivalent_and_minted_tokens")
    /\ kernel.args = <<0, 100, 100, 100>>
    /\ kernel.result.panic = NoPanic
    /\ kernel.result.opposite_equivalent = 0
    /\ kernel.result.minted_liquidity_tokens = 0

\* C18: arithmetic never silently wraps: whenever y + 1 or m * m in u128_sqrt,
\* token_a_amount * token_b_amount, or an intermediate of calculate_swap_to_amount,
\* calculate_equivalent_and_minted_tokens or calculate_reclaim_output exceeds
\* the word, the function signals an error instead of returning a value.
FirstMidpoint(y) == (y + 1) \div 2

Exceeds(fn, args) ==
    IF fn = "u128_sqrt"
    THEN ~Fits(args[1] + 1) \/ ~ProductFits(FirstMidpoint(args[1]), FirstMidpoint(args[1]))
    ELSE IF fn = "initial_liquidity_tokens"
    THEN ~ProductFits(args[1], args[2])
    ELSE IF fn = "calculate_swap_to_amount"
    THEN args[4] <= PerMille /\ ~SwapFits(args[1], args[2], args[3], args[4])
    ELSE IF fn = "calculate_equivalent_and_minted_tokens"
    THEN ~ProductFits(args[1], args[3]) \/ ~ProductFits(args[1], args[4])
    ELSE IF fn = "calculate_reclaim_output"
    THEN ~ProductFits(args[2], args[1]) \/ ~ProductFits(args[3], args[1])
    ELSE FALSE

C18_NoSilentWrap ==
    (kernel.done /\ Exceeds(kernel.fn, kernel.args)) => kernel.result.panic # NoPanic

\* C19: initialize succeeds exactly when the fee is at most 1000, the two token
\* addresses differ and neither is a plain account; otherwise it is rejected
\* and no state is created.  On success the state holds the given addresses
\* and fee, and an empty ledger.
C19_Initialize ==
    Applied("initialize") =>
        LET a_address == kernel.args[1]
            b_address == kernel.args[2]
            fee == kernel.args[3]
            acceptable == fee <= 1000 /\ a_address # b_address
                          /\ a_address \notin Users /\ b_address \notin Users
            out == kernel.result
        IN /\ acceptable <=> out.panic = NoPanic
           /\ ~acceptable => out.state = <<>>
           /\ acceptable =>
                 /\ Len(out.state) = 1
                 /\ out.state[1].token_a_address = a_address
                 /\ out.state[1].token_b_address = b_address
                 /\ out.state[1].swap_fee_per_mille = fee
                 /\ DOMAIN out.state[1].token_balances = {}

\* C19 witness: initialize with two token contracts and fee 1000 is accepted,
\* and the state it returns is the one the protocol starts from
C19_Witness ==
    /\ Applied("initialize")
    /\ kernel.args = <<TOKEN_A_ADDRESS, TOKEN_B_ADDRESS, PerMille>>
    /\ kernel.result.panic = NoPanic
    /\ kernel.result.state[1].contract = contract
    /\ kernel.result.state[1].token_balances = token_balances

\* C20: a successful provide_initial_liquidity(a, b) mints
\* minted = floor(sqrt(a * b)) > 0 shares: the caller's A and B fall by a and b,
\* the pool's reserves rise by a and b, the caller's shares and the pool's
\* supply rise by minted, and the caller then holds the whole supply; the
\* call is rejected with no state change when minted = 0.
IsFloorSqrt(x, a, b) ==
    /\ WideLeq(wide_mul(x, x), wide_mul(a, b))
    /\ WideLt(wide_mul(a, b), wide_mul(x + 1, x + 1))

InitialLiquidityFrame(sender, a, b, minted) ==
    \A h \in Holders :
        LET before == get_balance_for(token_balances, h)
            after == get_balance_for(token_balances', h)
        IN IF h = sender
           THEN after = [a_tokens |-> before.a_tokens - a, b_tokens |-> before.b_tokens - b,
                         liquidity_tokens |-> before.liquidity_tokens + minted]
           ELSE IF h = contract
           THEN after = [a_tokens |-> before.a_tokens + a, b_tokens |-> before.b_tokens + b,
                         liquidity_tokens |-> before.liquidity_tokens + minted]
           ELSE after = before

C20_InitialLiquidityStep ==
    /\ (last'.op = "provide_initial_liquidity" /\ token_balances' # token_balances) =>
          \E sender \in Users, a \in AnyAmounts, b \in AnyAmounts :
              LET minted == get_balance_for(token_balances', contract).liquidity_tokens
                              - Pool.liquidity_tokens
              IN /\ minted > 0
                 /\ IsFloorSqrt(minted, a, b)
                 /\ InitialLiquidityFrame(sender, a, b, minted)
                 /\ get_balance_for(token_balances', sender).liquidity_tokens
                       = get_balance_for(token_balances', contract).liquidity_tokens
    /\ \A sender \in Users, a \in AnyAmounts, b \in AnyAmounts :
          IsFloorSqrt(0, a, b) => Rejected(provide_initial_liquidity(sender, a, b))

C20_InitialLiquidity == [][C20_InitialLiquidityStep]_vars

\* C21: a successful provide_liquidity(asset_in, amount_in) computes
\* (opposite_amount, minted) by calculate_equivalent_and_minted_tokens on the
\* pool's reserves and supply before the call, moves amount_in of the provided
\* asset and opposite_amount of the opposite asset from the caller to the pool
\* and adds minted to the caller's shares and to the pool's supply; it is
\* rejected with no state change when minted = 0.
ProvideFrame(sender, token_in, amount_in, opposite_amount, minted) ==
    \A h \in Holders :
        LET before == get_balance_for(token_balances, h)
            after == get_balance_for(token_balances', h)
            token_out == Opposite(token_in)
            sign == IF h = sender THEN -1 ELSE IF h = contract THEN 1 ELSE 0
        IN /\ get_amount_of(after, token_in) = get_amount_of(before, token_in) + sign * amount_in
           /\ get_amount_of(after, token_out) = get_amount_of(before, token_out) + sign * opposite_amount
           /\ after.liquidity_tokens =
                 before.liquidity_tokens + (IF h \in {sender, contract} THEN minted ELSE 0)

ProvidedAmounts == AnyAmounts \cup ShareAmounts

C21_ProvideStep ==
    /\ (last'.op = "provide_liquidity" /\ token_balances' # token_balances) =>
          \E sender \in Users, token_in \in {TokenA, TokenB}, amount_in \in ProvidedAmounts :
              LET em == calculate_equivalent_and_minted_tokens(
                            amount_in, get_amount_of(Pool, token_in),
                            get_amount_of(Pool, Opposite(token_in)), Pool.liquidity_tokens)
              IN /\ em.panic = NoPanic
                 /\ em.minted_liquidity_tokens > 0
                 /\ ProvideFrame(sender, token_in, amount_in, em.opposite_equivalent,
                                 em.minted_liquidity_tokens)
    /\ \A sender \in Users, token_in \in {TokenA, TokenB}, amount_in \in ProvidedAmounts :
          LET em == calculate_equivalent_and_minted_tokens(
                        amount_in, get_amount_of(Pool, token_in),
                        get_amount_of(Pool, Opposite(token_in)), Pool.liquidity_tokens)
          IN (em.panic = NoPanic /\ em.minted_liquidity_tokens = 0) =>
                Rejected(provide_liquidity(sender, AddressOf(token_in), amount_in))

C21_ProvideLiquidity == [][C21_ProvideStep]_vars

\* C22: reclaim_liquidity(share_amount) fails with no state change if the
\* caller holds fewer than share_amount shares; otherwise it prices
\* (a_out, b_out) by calculate_reclaim_output on the pool's reserves and the
\* share count before the reclaim, moves a_out of A and b_out of B from the
\* pool to the caller, and reduces the caller's shares and the pool's supply
\* by share_amount.
ReclaimFrame(tb, sender, share_amount, a_out, b_out) ==
    \A h \in Holders :
        LET before == get_balance_for(token_balances, h)
            after == get_balance_for(tb, h)
            sign == IF h = sender THEN 1 ELSE IF h = contract THEN -1 ELSE 0
        IN /\ after.a_tokens = before.a_tokens + sign * a_out
           /\ after.b_tokens = before.b_tokens + sign * b_out
           /\ after.liquidity_tokens =
                 before.liquidity_tokens - (IF h \in {sender, contract} THEN share_amount ELSE 0)

SharesOf(sender) == get_balance_for(token_balances, sender).liquidity_tokens

ReclaimedAmounts(sender) == AnyAmounts \cup ShareAmounts \cup {SharesOf(sender)}

ReclaimPriced(sender, share_amount) ==
    LET out == reclaim_liquidity(sender, share_amount)
        priced == calculate_reclaim_output(share_amount, Pool.a_tokens, Pool.b_tokens, Pool.liquidity_tokens)
    IN /\ out.panic = NoPanic
       /\ out.events = {}
       /\ priced.panic = NoPanic
       /\ ReclaimFrame(out.tb, sender, share_amount, priced.a_output, priced.b_output)

AssetTag(token_address) == IF token_address = token_a_address THEN TokenA ELSE TokenB

AllTokens == {TokenA, TokenB, LiquidityToken}

CreditFrame(sender, token, amount) ==
    \A h \in Holders \cup DOMAIN token_balances \cup DOMAIN token_balances' :
        \A t \in AllTokens :
            get_amount_of(get_balance_for(token_balances', h), t) =
                get_amount_of(get_balance_for(token_balances, h), t)
                    + (IF h = sender /\ t = token THEN amount ELSE 0)

DepositRequested ==
    \E sender \in Users, token_address \in TokenAddresses, amount \in Amounts :
        LET e == Event("transfer_from", token_address, sender, AssetTag(token_address), amount, FALSE)
        IN /\ deposit(sender, token_address, amount).events = {e}
           /\ pending' = pending (+) SetToBag({e})
           /\ token_balances' = token_balances
           /\ wallets' = wallets

CallbackArmed ==
    \E e \in BagToSet(pending) :
        /\ e.kind = "transfer_from"
        /\ \E armed \in BagToSet(pending') :
              /\ armed.kind = "deposit_callback"
              /\ armed.sender = e.sender
              /\ armed.token = e.token
              /\ armed.amount = e.amount
              /\ armed.token_address = e.token_address
              /\ armed.success = (last'.panic = NoPanic)
              /\ pending' = (pending (-) SetToBag({e})) (+) SetToBag({armed})
        /\ token_balances' = token_balances
        /\ wallets' = IF last'.panic = NoPanic
                      THEN token_move(wallets, e.token_address, e.sender, contract, e.amount)
                      ELSE wallets

DepositConfirmed ==
    \E e \in BagToSet(pending) :
        /\ e.kind = "deposit_callback"
        /\ e.success
        /\ pending' = pending (-) SetToBag({e})
        /\ CreditFrame(e.sender, e.token, e.amount)
        /\ wallets' = wallets

C23_TwoPhaseStep ==
    /\ (last'.op = "deposit" /\ pending' # pending) => DepositRequested
    /\ (last'.op = "transfer_from" /\ pending' # pending) => CallbackArmed
    /\ (last' = Called("deposit_callback", NoPanic) /\ pending' # pending) => DepositConfirmed

C23_TwoPhaseDeposit == [][C23_TwoPhaseStep]_vars

C23_Witness ==
    /\ last = Called("deposit_callback", NoPanic)
    /\ pending = EmptyBag
    /\ get_balance_for(token_balances, "u1").b_tokens = MaxAmount
    /\ wallets[TOKEN_B_ADDRESS][contract] = MaxAmount

\* C24: when the confirm of a deposit reports that the external transfer
\* failed, nothing is credited: the ledger after the confirm is the ledger
\* before it, and the request lapses.
FailedConfirm ==
    \E e \in BagToSet(pending) :
        /\ e.kind = "deposit_callback"
        /\ ~e.success
        /\ pending' = pending (-) SetToBag({e})
        /\ token_balances' = token_balances
        /\ wallets' = wallets

C24_FailedConfirmStep ==
    /\ (last'.op = "deposit_callback" /\ last'.panic # NoPanic) => FailedConfirm
    /\ \A e \in BagToSet(pending) :
          (e.kind = "deposit_callback" /\ ~e.success) =>
              Rejected(deposit_callback(e.sender, e.success, e.token, e.amount))

C24_FailedConfirm == [][C24_FailedConfirmStep]_vars

C24_Witness ==
    /\ last.op = "deposit_callback"
    /\ last.panic # NoPanic
    /\ pending = EmptyBag
    /\ token_balances = [u \in {} |-> EMPTY_BALANCE]
    /\ wallets[TOKEN_A_ADDRESS]["u1"] = WalletA

\* C25: optimistic withdraw.  withdraw(token, amount) debits amount from the
\* caller's entry in the same call that emits the external
\* transfer(caller, amount), before the outcome of that transfer is known; if
\* the transfer later fails, no later step restores the debit: the step that
\* settles the transfer leaves the ledger as it is and leaves nothing pending
\* for it.
WithdrawDebited ==
    \E sender \in Users, token_address \in TokenAddresses, amount \in Amounts :
        LET e == Event("transfer", token_address, sender, AssetTag(token_address), amount, FALSE)
        IN /\ get_amount_of(get_balance_for(token_balances, sender), AssetTag(token_address)) >= amount
           /\ CreditFrame(sender, AssetTag(token_address), 0 - amount)
           /\ pending' = pending (+) SetToBag({e})
           /\ wallets' = wallets

TransferSettled ==
    \E e \in BagToSet(pending) :
        /\ e.kind = "transfer"
        /\ pending' = pending (-) SetToBag({e})
        /\ token_balances' = token_balances
        /\ wallets' = IF last'.panic = NoPanic
                      THEN token_move(wallets, e.token_address, contract, e.sender, e.amount)
                      ELSE wallets

\* The steps that can raise an asset balance of a user in the ledger
Crediting == {"deposit_callback", "swap", "reclaim_liquidity"}

OnlyCallsCredit ==
    \A u \in Users, t \in {TokenA, TokenB} :
        get_amount_of(get_balance_for(token_balances', u), t) > get_amount_of(get_balance_for(token_balances, u), t)
            => last'.op \in Crediting

C25_WithdrawStep ==
    /\ (last'.op = "withdraw" /\ pending' # pending) => WithdrawDebited
    /\ last'.op = "transfer" => TransferSettled
    /\ OnlyCallsCredit

C25_OptimisticWithdraw == [][C25_WithdrawStep]_vars

C25_Witness ==
    /\ last = Called("transfer", "transfer failed")
    /\ pending = EmptyBag
    /\ token_balances = [u \in {} |-> EMPTY_BALANCE]
    /\ wallets[TOKEN_A_ADDRESS][contract] = WalletA
    /\ wallets[TOKEN_A_ADDRESS]["u1"] = 0

\* C26: a user may withdraw at any point.  In every reachable state, whether
\* the pool is initialized or not and whatever is in flight, withdraw(token,
\* amount) by a caller whose ledger balance of that token is at least amount
\* succeeds: it debits the amount and emits the transfer.
HeldBy(sender, token) == get_amount_of(get_balance_for(token_balances, sender), token)

WithdrawSucceeds(sender, token_address, amount) ==
    LET out == withdraw(sender, token_address, amount)
        token == AssetTag(token_address)
    IN /\ out.panic = NoPanic
       /\ out.events = {Event("transfer", token_address, sender, token, amount, FALSE)}
       /\ get_amount_of(get_balance_for(out.tb, sender), token) = HeldBy(sender, token) - amount

C26_WithdrawAnyTime ==
    \A sender \in Users, token_address \in TokenAddresses :
        \A amount \in Amounts \cup {HeldBy(sender, AssetTag(token_address))} :
            HeldBy(sender, AssetTag(token_address)) >= amount =>
                WithdrawSucceeds(sender, token_address, amount)

\* A withdraw has just been accepted while the pool is initialized, and the
\* caller of another one still holds tokens
C26_Witness ==
    /\ last.op = "withdraw"
    /\ PoolInitialized
    /\ pending # EmptyBag
    /\ \E sender \in Users : HeldBy(sender, TokenB) > 0 /\ WithdrawSucceeds(sender, token_b_address, 1)

\* The same with a deposit in flight and the pool not initialized
C26_WitnessPending ==
    /\ ~PoolInitialized
    /\ \E e \in BagToSet(pending) : e.kind = "deposit_callback"
    /\ \E sender \in Users : HeldBy(sender, TokenA) > 0 /\ WithdrawSucceeds(sender, token_a_address, HeldBy(sender, TokenA))

\* C27: fee-loss bound of a swap round trip.  With both reserves 123456789
\* and fee 3 per mille, for every input_a in 1 .. 1000, swapping input_a of A
\* for output_b of B and swapping output_b back against the updated reserves
\* (b_pool - output_b, a_pool + input_a) yields output_a with
\* output_a + 3 >= output_b and output_a + 7 >= input_a, and never more than
\* input_a.
C27_RoundTrip ==
    Applied("test_calculate_swap_to_amount") =>
        /\ kernel.result.panic = NoPanic
        /\ Len(kernel.args) = 2
        /\ LET input_a == kernel.args[1]
               output_b == kernel.args[2]
               output_a == kernel.result.v
           IN /\ output_a + 3 >= output_b
              /\ output_a + 7 >= input_a
              /\ output_a <= input_a

C27_Witness ==
    /\ Applied("test_calculate_swap_to_amount")
    /\ kernel.args = <<EndInputRange, 996>>
    /\ kernel.result = Ok(993)

\* C28: with a non-zero swap fee, every successful swap of a positive amount
\* strictly increases the product of the two pool reserves.
C28_StrictProductStep ==
    \A sender \in Users, token_address \in TokenAddresses, amount \in PoolAmounts \ {0} :
        (/\ swap_fee_per_mille # 0
         /\ SwapStep(sender, token_address, amount)
         /\ swap(sender, token_address, amount).panic = NoPanic)
        => WideLt(wide_mul(Pool.a_tokens, Pool.b_tokens),
                  wide_mul(Pool'.a_tokens, Pool'.b_tokens))

C28_StrictProduct == [][C28_StrictProductStep]_vars

\* C29: across any sequence of liquidity provisions with positive provided
\* amounts, starting from reserves >= 1 and a share supply of
\* u128_sqrt(reserve_a * reserve_b), each provision strictly increases both
\* reserves, never decreases the total share supply, and strictly increases
\* the product of the reserves.
ProvisionGrows ==
    /\ Pool'.a_tokens > Pool.a_tokens
    /\ Pool'.b_tokens > Pool.b_tokens
    /\ Pool'.liquidity_tokens >= Pool.liquidity_tokens
    /\ WideLt(wide_mul(Pool.a_tokens, Pool.b_tokens), wide_mul(Pool'.a_tokens, Pool'.b_tokens))

C29_ProvisionStep ==
    (last'.op = "provide_liquidity" /\ token_balances' # token_balances) => ProvisionGrows

C29_Provisions == [][C29_ProvisionStep]_vars

\* C30: a pending deposit is never abandoned.  Under fair delivery by the
\* runtime, every issued deposit request eventually receives its confirm, and
\* if its transfer succeeded the caller's ledger balance of that asset is
\* increased by the requested amount; no operation of the contract cancels or
\* drops a pending request.
IsRequest(e) == e.kind \in {"transfer_from", "deposit_callback"}

RequestPending == \E e \in BagToSet(pending) : IsRequest(e)

\* Every copy of a request stays pending until the runtime processes it, and
\* the confirm of a transfer that succeeded credits the caller
RequestKept ==
    \A e \in BagToSet(pending) :
        IsRequest(e) =>
            \/ CopiesIn(e, pending') >= CopiesIn(e, pending)
            \/ /\ e.kind = "transfer_from"
               /\ last'.op = "transfer_from"
               /\ CopiesIn(e, pending') = CopiesIn(e, pending) - 1
               /\ BagIn([e EXCEPT !.kind = "deposit_callback", !.success = (last'.panic = NoPanic)], pending')
            \/ /\ e.kind = "deposit_callback"
               /\ last'.op = "deposit_callback"
               /\ CopiesIn(e, pending') = CopiesIn(e, pending) - 1
               /\ IF e.success
                  THEN last'.panic = NoPanic /\ CreditFrame(e.sender, e.token, e.amount)
                  ELSE token_balances' = token_balances

\* A request does not wait forever: it is processed, again and again if it
\* is issued again and again
RequestServed(e) == []<>(~BagIn(e, pending)) \/ []<><<Deliver(e)>>_vars

C30_NeverAbandoned ==
    /\ [][RequestKept]_vars
    /\ \A e \in Requests : RequestServed(e)
    /\ RequestPending ~> (last.op = "deposit_callback")

C30_Witness ==
    /\ last = Called("deposit_callback", NoPanic)
    /\ ~RequestPending
    /\ PoolInitialized
    /\ get_balance_for(token_balances, "u1").a_tokens > 0

\* C31: zero-effect operations are rejected as validation errors with no state
\* mutation: a provisioning (initial or subsequent) that would mint zero
\* shares, and likewise any other call whose effect on the ledger would be
\* nil, such as a swap of amount 0 or a reclaim of 0 shares.
MintsZero(sender, token_address, amount) ==
    LET em == calculate_equivalent_and_minted_tokens(amount, get_amount_of(Pool, AssetTag(token_address)), get_amount_of(Pool, Opposite(AssetTag(token_address))), Pool.liquidity_tokens)
    IN em.panic = NoPanic /\ em.minted_liquidity_tokens = 0

ZeroMintRejected ==
    /\ \A sender \in Users, token_address \in TokenAddresses, amount \in PoolAmounts :
          MintsZero(sender, token_address, amount) =>
              Rejected(provide_liquidity(sender, token_address, amount))
    /\ \A sender \in Users, a \in PoolAmounts, b \in PoolAmounts :
          initial_liquidity_tokens(a, b) = Ok(0) =>
              Rejected(provide_initial_liquidity(sender, a, b))

\* The call changes no balance of any holder
NilEffect(out) ==
    \A h \in Holders : get_balance_for(out.tb, h) = get_balance_for(token_balances, h)

C31_ZeroEffectRejected ==
    /\ ZeroMintRejected
    /\ \A sender \in Users, token_address \in TokenAddresses :
          Rejected(swap(sender, token_address, 0))
    /\ \A sender \in Users : Rejected(reclaim_liquidity(sender, 0))

\* The pricing of a swap of amount 0 does not abort
ZeroSwapPriced(token_address) ==
    calculate_swap_to_amount(get_amount_of(Pool, AssetTag(token_address)), get_amount_of(Pool, Opposite(AssetTag(token_address))), 0, swap_fee_per_mille).panic = NoPanic

\* C31, amended: a provisioning that would mint zero shares is rejected with
\* no state mutation; a swap of amount 0 and a reclaim of 0 shares are not
\* validation errors: once the pool holds liquidity (and unless the pricing
\* arithmetic itself aborts) they are accepted, and they change no balance.
C31_ZeroEffectAmended ==
    /\ ZeroMintRejected
    /\ \A sender \in Users, token_address \in TokenAddresses :
          IF PoolInitialized /\ ZeroSwapPriced(token_address)
          THEN swap(sender, token_address, 0).panic = NoPanic /\ NilEffect(swap(sender, token_address, 0))
          ELSE Rejected(swap(sender, token_address, 0))
    /\ \A sender \in Users :
          IF Pool.liquidity_tokens > 0
          THEN reclaim_liquidity(sender, 0).panic = NoPanic /\ NilEffect(reclaim_liquidity(sender, 0))
          ELSE Rejected(reclaim_liquidity(sender, 0))

C31_Witness ==
    /\ last.op = "swap"
    /\ PoolInitialized
    /\ \E sender \in Users, token_address \in TokenAddresses :
          /\ \E amount \in PoolAmounts \ {0} :
                /\ MintsZero(sender, token_address, amount)
                /\ Rejected(provide_liquidity(sender, token_address, amount))
          /\ swap(sender, token_address, 0).panic = NoPanic
          /\ NilEffect(swap(sender, token_address, 0))
          /\ reclaim_liquidity(sender, 0).panic = NoPanic

\* C32: reclaim is always payable.  In every reachable state with a pool
\* supply L > 0, a reclaim_liquidity(l) by a caller holding at least l shares
\* never fails for lack of pool funds: l <= L, a_out <= reserve_a,
\* b_out <= reserve_b and a_out * b_out <= reserve_a * reserve_b.
Payable(sender, l) ==
    LET priced == calculate_reclaim_output(l, Pool.a_tokens, Pool.b_tokens, Pool.liquidity_tokens)
    IN /\ l <= Pool.liquidity_tokens
       /\ reclaim_liquidity(sender, l).panic # "Insufficient funds"
       /\ priced.panic = NoPanic =>
             /\ priced.a_output <= Pool.a_tokens
             /\ priced.b_output <= Pool.b_tokens
             /\ WideLeq(wide_mul(priced.a_output, priced.b_output), wide_mul(Pool.a_tokens, Pool.b_tokens))

C32_ReclaimPayable ==
    Pool.liquidity_tokens > 0 =>
        \A sender \in Users :
            \A l \in ReclaimedAmounts(sender) :
                SharesOf(sender) >= l => Payable(sender, l)

\* C33: in every reachable state the two pool reserves are either both zero
\* or both non-zero, and the pool's share supply is zero exactly when the
\* reserves are zero.
C33_ReservesTogether ==
    /\ (Pool.a_tokens = 0) <=> (Pool.b_tokens = 0)
    /\ (Pool.liquidity_tokens = 0) <=> (Pool.a_tokens = 0 /\ Pool.b_tokens = 0)

\* The output a swap of the amount is priced at, against the present reserves
SwapPriced(token_address, amount) ==
    calculate_swap_to_amount(get_amount_of(Pool, AssetTag(token_address)), get_amount_of(Pool, Opposite(AssetTag(token_address))), amount, swap_fee_per_mille)

\* C34: a swap never drains a reserve.  On an initialized pool the amount
\* paid out is strictly less than the reserve of the output asset, so the
\* second leg never fails with 'Insufficient funds' and both reserves stay
\* at least 1; a swap fails only on the caller's own insufficient balance.
C34_SwapNeverDrains ==
    PoolInitialized =>
        \A sender \in Users, token_address \in TokenAddresses, amount \in PoolAmounts :
            LET out == swap(sender, token_address, amount)
                priced == SwapPriced(token_address, amount)
            IN /\ priced.panic = NoPanic =>
                      priced.v < get_amount_of(Pool, Opposite(AssetTag(token_address)))
               /\ out.panic # NoPanic => HeldBy(sender, AssetTag(token_address)) < amount
               /\ out.panic = NoPanic =>
                      /\ get_balance_for(out.tb, contract).a_tokens >= 1
                      /\ get_balance_for(out.tb, contract).b_tokens >= 1

\* x * y <= u * v, computed exactly
ProductLeq(x, y, u, v) ==
    CompareDigits(MulDigits(ToDigits(x), ToDigits(y)), MulDigits(ToDigits(u), ToDigits(v))) <= 0

\* a * b * L' * L' <= a' * b' * L * L, computed exactly
ShareValueKept ==
    CompareDigits(MulDigits(MulDigits(ToDigits(Pool.a_tokens), ToDigits(Pool.b_tokens)),
                            MulDigits(ToDigits(Pool'.liquidity_tokens), ToDigits(Pool'.liquidity_tokens))),
                  MulDigits(MulDigits(ToDigits(Pool'.a_tokens), ToDigits(Pool'.b_tokens)),
                            MulDigits(ToDigits(Pool.liquidity_tokens), ToDigits(Pool.liquidity_tokens)))) <= 0

\* a * L' <= a' * L and b * L' <= b' * L
ReservePerShareKept ==
    /\ ProductLeq(Pool.a_tokens, Pool'.liquidity_tokens, Pool'.a_tokens, Pool.liquidity_tokens)
    /\ ProductLeq(Pool.b_tokens, Pool'.liquidity_tokens, Pool'.b_tokens, Pool.liquidity_tokens)

\* A successful swap, provide_liquidity or partial reclaim_liquidity on an
\* initialized pool
ValuedCall(ops) ==
    /\ PoolInitialized
    /\ last'.op \in ops
    /\ last'.panic = NoPanic
    /\ token_balances' # token_balances
    /\ last'.op = "reclaim_liquidity" => Pool'.liquidity_tokens > 0

\* C35: the share value never decreases.  While the pool is initialized,
\* every successful swap, provide_liquidity and partial reclaim_liquidity
\* keeps a' * b' * L * L >= a * b * L' * L', and provide_liquidity and
\* reclaim_liquidity also keep a' * L >= a * L' and b' * L >= b * L'.
C35_ShareValueStep ==
    /\ ValuedCall({"swap", "provide_liquidity", "reclaim_liquidity"}) => ShareValueKept
    /\ ValuedCall({"provide_liquidity", "reclaim_liquidity"}) => ReservePerShareKept

C35_ShareValue == [][C35_ShareValueStep]_vars

\* C36: a provide_liquidity followed immediately by a reclaim_liquidity of
\* exactly the shares it minted gives the caller back at most the amount it
\* provided of each asset, and the caller's share count returns to its
\* previous value.
ProvideThenReclaim(sender, token_address, amount) ==
    LET provided == provide_liquidity(sender, token_address, amount)
        before == get_balance_for(token_balances, sender)
        between == get_balance_for(provided.tb, sender)
        reclaimed == reclaim_liquidity_on(provided.tb, sender, between.liquidity_tokens - before.liquidity_tokens)
        after == get_balance_for(reclaimed.tb, sender)
    IN provided.panic = NoPanic =>
          /\ reclaimed.panic = NoPanic
          /\ after.a_tokens <= before.a_tokens
          /\ after.b_tokens <= before.b_tokens
          /\ after.liquidity_tokens = before.liquidity_tokens

C36_ProvideReclaim ==
    \A sender \in Users, token_address \in TokenAddresses, amount \in ProvidedAmounts :
        ProvideThenReclaim(sender, token_address, amount)

\* The ledger entry of a holder: absent, or its balance
EntryOf(tb, h) == IF h \in DOMAIN tb THEN <<tb[h]>> ELSE <<>>

\* The call leaves the entry of every holder outside the set as it was
Untouched(out, allowed) ==
    \A h \in Holders \ allowed : EntryOf(Persist(out), h) = EntryOf(token_balances, h)

\* Every call, whatever its caller and inputs, leaves third parties alone
CallsKeepFrame ==
    /\ \A sender \in Users, token_address \in AddressInputs, amount \in Amounts :
          /\ Untouched(swap(sender, token_address, amount), {sender, contract})
          /\ Untouched(provide_liquidity(sender, token_address, amount), {sender, contract})
          /\ Untouched(withdraw(sender, token_address, amount), {sender})
          /\ Untouched(deposit(sender, token_address, amount), {})
    /\ \A sender \in Users, token_a_amount \in Amounts, token_b_amount \in Amounts :
          Untouched(provide_initial_liquidity(sender, token_a_amount, token_b_amount), {sender, contract})
    /\ \A sender \in Users, liquidity_token_amount \in Amounts :
          Untouched(reclaim_liquidity(sender, liquidity_token_amount), {sender, contract})
    /\ \A e \in BagToSet(pending) :
          e.kind = "deposit_callback" =>
              Untouched(deposit_callback(e.sender, e.success, e.token, e.amount), {e.sender})

\* C37: no operation touches a third party.  A swap, provide_liquidity,
\* provide_initial_liquidity or reclaim_liquidity by c changes at most c's
\* ledger entry and the pool's; a withdraw by c and the confirm of a deposit
\* of c change only c's entry; the token addresses, the fee and the
\* contract's own address are never changed by any operation.
ConfigKept ==
    <<contract, token_a_address, token_b_address, swap_fee_per_mille>>' = <<contract, token_a_address, token_b_address, swap_fee_per_mille>>

C37_Frame == []CallsKeepFrame /\ [][ConfigKept]_vars

\* C37 witness: a deposit has just been confirmed, and a swap of a positive
\* amount succeeds for a caller while another user has a ledger entry
C37_Witness ==
    /\ last.op = "deposit_callback"
    /\ last.panic = NoPanic
    /\ PoolInitialized
    /\ \E sender \in Users, token_address \in TokenAddresses, amount \in Amounts \ {0} :
          LET out == swap(sender, token_address, amount)
          IN /\ out.panic = NoPanic
             /\ EntryOf(out.tb, sender) # EntryOf(token_balances, sender)
             /\ EntryOf(out.tb, contract) # EntryOf(token_balances, contract)
             /\ \E other \in Users \ {sender} : other \in DOMAIN token_balances

\* The ledger a call leaves when run on the ledger tb
LedgerAfter(tb, out) == IF out.panic = NoPanic THEN out.tb ELSE tb

\* The confirm of the pending deposit e and the call Op, run in either
\* order, leave the same ledger, and the confirm credits e.amount after Op too
Commutes(e, Op(_)) ==
    LET confirmed == deposit_callback(e.sender, e.success, e.token, e.amount)
        confirm_first == LedgerAfter(confirmed.tb, Op(confirmed.tb))
        called == LedgerAfter(token_balances, Op(token_balances))
        confirm_last == deposit_callback_on(called, e.sender, e.success, e.token, e.amount)
    IN confirmed.panic = NoPanic =>
          /\ confirm_last.panic = NoPanic
          /\ confirm_last.tb = confirm_first
          /\ get_amount_of(get_balance_for(confirm_last.tb, e.sender), e.token)
                = get_amount_of(get_balance_for(called, e.sender), e.token) + e.amount

\* The confirms that are waiting for delivery
PendingConfirms == {e \in BagToSet(pending) : e.kind = "deposit_callback"}

\* C38: the successful confirm of a caller's pending deposit commutes with
\* any operation of a different caller and with the confirm of any other
\* pending deposit: either order gives the same ledger, and the amount
\* credited does not depend on what executed in between.
C38_ConfirmCommutes ==
    \A e \in PendingConfirms :
        /\ \A other \in Users \ {e.sender}, token_address \in AddressInputs, amount \in Amounts :
              /\ Commutes(e, LAMBDA tb : swap_on(tb, other, token_address, amount))
              /\ Commutes(e, LAMBDA tb : provide_liquidity_on(tb, other, token_address, amount))
              /\ Commutes(e, LAMBDA tb : withdraw_on(tb, other, token_address, amount))
              /\ Commutes(e, LAMBDA tb : reclaim_liquidity_on(tb, other, amount))
              /\ \A token_b_amount \in Amounts :
                    Commutes(e, LAMBDA tb : provide_initial_liquidity_on(tb, other, amount, token_b_amount))
        /\ \A f \in PendingConfirms :
              f # e =>
                  Commutes(e, LAMBDA tb : deposit_callback_on(tb, f.sender, f.success, f.token, f.amount))

\* C38 witness: two successful confirms of positive amounts are waiting, and
\* a user other than the caller of one of them can swap a positive amount
C38_Witness ==
    \E e \in PendingConfirms, f \in PendingConfirms :
        /\ f # e
        /\ e.success /\ f.success /\ e.amount > 0 /\ f.amount > 0
        /\ \E other \in Users \ {e.sender}, token_address \in TokenAddresses, amount \in Amounts \ {0} :
              swap(other, token_address, amount).panic = NoPanic

\* What the swap run on the ledger tb pays out to its caller
PaidOut(tb, out, sender, token_address) ==
    get_amount_of(get_balance_for(out.tb, sender), Opposite(AssetTag(token_address)))
        - get_amount_of(get_balance_for(tb, sender), Opposite(AssetTag(token_address)))

\* The victim's swap pays no more after the front-running swap than without it
NotBetterAfter(victim, other, token_address, amount, front_amount) ==
    LET direct == swap(victim, token_address, amount)
        front == swap(other, token_address, front_amount)
        after == swap_on(front.tb, victim, token_address, amount)
    IN (direct.panic = NoPanic /\ front.panic = NoPanic /\ after.panic = NoPanic) =>
          PaidOut(front.tb, after, victim, token_address)
              <= PaidOut(token_balances, direct, victim, token_address)

\* Two callers swapping the same amount from the same state are paid the same
SameForAnyCaller(victim, other, token_address, amount) ==
    LET direct == swap(victim, token_address, amount)
        same == swap(other, token_address, amount)
    IN (direct.panic = NoPanic /\ same.panic = NoPanic) =>
          PaidOut(token_balances, direct, victim, token_address)
              = PaidOut(token_balances, same, other, token_address)

\* C39: from the same initialized state, the amount_out of a swap of x by a
\* victim after another caller has swapped a positive amount of the same
\* asset in the same direction is at most its amount_out without that swap;
\* the output depends on the reserves, the amount and the fee only, not on
\* the caller.
C39_PriceImpact ==
    PoolInitialized =>
        \A victim \in Users, token_address \in TokenAddresses, amount \in PoolAmounts :
            \A other \in Users \ {victim} :
                /\ SameForAnyCaller(victim, other, token_address, amount)
                /\ \A front_amount \in PoolAmounts \ {0} :
                      NotBetterAfter(victim, other, token_address, amount, front_amount)

\* l < r and l * l <= y < r * r, the squares computed exactly
SearchInvariant(l, r, y) ==
    /\ l < r
    /\ WideLeq(wide_mul(l, l), [hi |-> 0, lo |-> y])
    /\ WideLt([hi |-> 0, lo |-> y], wide_mul(r, r))

\* The loop of u128_sqrt, followed from (l, r): every iteration starts in
\* the invariant and narrows r - l, and the loop is left with l = r - 1
RECURSIVE SearchNarrows(_, _, _, _)
SearchNarrows(l, r, y, fuel) ==
    LET r1 == u_sub(r, 1) IN
    /\ SearchInvariant(l, r, y)
    /\ r1.panic = NoPanic
    /\ \/ l = r1.v
       \/ /\ fuel > 0
          /\ LET m == Div(u_add(l, r), Ok(2))
                 mm == Mul(m, m)
                 next_l == IF mm.v <= y THEN m.v ELSE l
                 next_r == IF mm.v <= y THEN r ELSE m.v
             IN /\ mm.panic = NoPanic
                /\ next_r - next_l < r - l
                /\ SearchNarrows(next_l, next_r, y, fuel - 1)

\* C40: the binary search of u128_sqrt terminates for every input y.  From
\* l = 0 and r = y + 1 every iteration keeps l < r and l * l <= y < r * r
\* and strictly shrinks r - l, so the loop exits with l = r - 1; y = 0 exits
\* at once and returns 0.
C40_SqrtTerminates ==
    Applied("u128_sqrt") =>
        LET y == kernel.args[1]
            r == u_add(y, 1)
        IN /\ kernel.result.panic = NoPanic
           /\ r.panic = NoPanic
           /\ SearchNarrows(0, r.v, y, 2 * WordBits)
           /\ y = 0 => kernel.result.v = 0

====
